---- MODULE Spec2Model ----
(***************************************************************************)
(* The WebSocket subsystem and the BridgeUtils of live-transcribe-fine.    *)
(*                                                                         *)
(*  - BroadcastWebSocketServer (src/src/WebSocket/BroadcastWebSocketServer *)
(*    .hpp): one server object, its loop thread, the foreign threads that  *)
(*    call start(), stop() and broadcast() on it, and its clients.         *)
(*    Specification: SpecBroadcast.                                        *)
(*  - WebSocketServerPool over WebSocketServer (WebSocketServerPool.hpp,   *)
(*    WebSocketServer.hpp): the pool's map and lock, the server instances  *)
(*    with their loop threads, and the threads that call ensureGetServer,  *)
(*    stopAll, stop and drop their handles. Specification: SpecPool.       *)
(*  - One BroadcastWebSocketServer with one producer thread and clients    *)
(*    that fall behind or send messages. Specification: SpecSession.       *)
(*  - AsyncTextureReader (src/src/BridgeUtils/AsyncTextureReader.hpp): the *)
(*    render thread in stage(), the CPU thread in sync() and getBuffer().  *)
(*    Specification: SpecReader.                                           *)
(*  - GsUnique (src/src/BridgeUtils/GsUnique.hpp): the deque of resources  *)
(*    to delete and the threads in scheduleResourceToDelete() and drain(). *)
(*    Specification: SpecGs.                                               *)
(*                                                                         *)
(* Every step that reads or writes shared memory is one action; a section  *)
(* guarded by a mutex that every access of the data takes is one action.   *)
(***************************************************************************)
EXTENDS Integers, Sequences, FiniteSets, TLC

\* ------------------------------------------------------------------------
\* Bounds of the model
\* ------------------------------------------------------------------------
\* foreign threads calling into the broadcast server
Callers == {"t1", "t2"}
\* WebSocket clients that may connect to the broadcast server
Clients == {"k1", "k2"}
\* WebSocket clients that connect to the server of a different port
OtherClients == {"k3"}
\* loop threads one server object may spawn over its life (start() calls
\* that get as far as spawning)
MaxGen == 2
\* calls (start, stop, broadcast) made on the broadcast server in one run
MaxCalls == 3
\* broadcast() calls in one run; each carries a fresh message 1..MaxMsg
MaxMsg == 2
\* the producer thread of the runs that follow the clients of one server
Producers == {"t1"}
\* messages the clients send to the server in one run
MaxInbound == 2

\* stage() calls made on the texture reader in one run
MaxStage == 3
\* sync() calls made on the texture reader in one run
MaxSync == 2
\* getBuffer() calls made on the texture reader in one run
MaxGet == 2

\* non-null resources handed to scheduleResourceToDelete in one run
MaxRes == 2
\* calls of scheduleResourceToDelete with a null resource in one run
MaxNull == 1
\* drain() calls in one run
MaxDrain == 2

\* threads that use the pool
PoolThreads == {"u1", "u2"}
\* ports asked of the pool
Ports == {9001, 9002}
\* WebSocket clients that may connect to a server of the pool
PoolClients == {"c1"}
\* WebSocketServer instances the pool constructs in one run
MaxInst == 3
\* calls (ensureGetServer, stopAll, stop on a handle, dropping a handle)
\* made in one run
MaxPoolCalls == 4

\* nullptr: the value of a handle that points at nothing
NULL == 0

VARIABLES
    \* ---- BroadcastWebSocketServer ----
    running_,         \* std::atomic<bool> running_
    listen_success_,  \* std::atomic<bool> listen_success_
    listen_socket_,   \* us_listen_socket_t*: NULL or the generation that opened it
    app_,             \* uWS::App*: NULL or the generation whose stack holds it
    eventLoop_,       \* uWS::Loop*: NULL or the generation whose loop it is
    serverThread_,    \* std::thread: [gen, joinable]
    thr,              \* the loop thread of each generation: [pc, closed, open]
    promise,          \* listen_promise of each generation: "unset", "true", "false"
    queue,            \* closures deferred onto each generation's loop
    nthreads,         \* generations spawned so far
    caller,           \* each foreign thread: [pc, loop, app, token, msg, gen, lst0, lst]
    subscribed,       \* clients subscribed to the topic "broadcast"
    received,         \* TEXT frames each client has received, in order
    closeEvents,      \* clients that observed a close event
    elsewhere,        \* clients connected to the server of a different port
    sent,             \* each message handed to broadcast(): who sent it, the loop
                      \* copied and the clients connected at the call (history)
    ran,              \* messages whose closure the loop thread has executed (history)
    slow,             \* clients whose socket buffer is at the backpressure ceiling
    inbound,          \* messages the clients have sent to the server so far
    calls,            \* calls made so far
    nmsg,             \* messages handed to broadcast() so far
    consecStops,      \* stop() calls completed since the last start() (history)
    raced,            \* a start()/stop() call began while another was in progress (history)
    fatal,            \* the process was terminated (std::terminate, crash)
    \* ---- WebSocketServerPool and its WebSocketServer instances ----
    servers_,         \* unordered_map<int, weak_ptr<WebSocketServer>>: port -> instance or NULL
    mutex_,           \* the pool's std::mutex: "free" or the thread that holds it
    srv,              \* the WebSocketServer instances ever constructed; conn: the
                      \* clients connected, gone: those that observed a close event
    ninst,            \* instances constructed so far
    pth,              \* each thread using the pool: [pc, port, cur, ctx, snap, rel, all]
    held,             \* the shared_ptr each thread holds: an instance or NULL
    pcalls,           \* calls made on the pool and on handles so far
    cleared,          \* stopAll() has cleared a non-empty map (history)
    lastCall,         \* the call begun last on the pool or on a handle (history)
    pfatal,           \* the process was terminated (std::terminate)
    \* ---- AsyncTextureReader ----
    gpuWriteIndex,    \* std::size_t gpuWriteIndex
    gpuMutex,         \* std::mutex gpuMutex: "free" or the thread that holds it
    activeCpuBufferIndex, \* std::atomic<std::size_t> activeCpuBufferIndex
    stagesurfs,       \* the frame each of the two staging surfaces holds
    cpuBuffers,       \* the frame each of the two CPU buffers holds
    render,           \* the render thread inside stage(): [pc, surf]
    cpu,              \* the CPU thread inside sync(): [pc, gpuReadIndex, backBufferIndex]
    nstage,           \* stage() calls made so far; call n carries frame n
    nsync,            \* sync() calls made so far
    reader,           \* getBuffer(): [buf: the buffer the last call returned, n: calls so far]
    \* ---- GsUnique ----
    resourcesToDelete, \* std::deque<GsResourceDeleterPair>: the resources waiting
    mtx,              \* the std::mutex of getMutex(): "free" or the thread that holds it
    gth,              \* each thread using GsUnique: [pc, resource, resources]
    deleted,          \* how often each resource was passed to its deleter
    scheduled,        \* resources whose scheduleResourceToDelete call has returned
    nres,             \* non-null resources handed to scheduleResourceToDelete so far
    nnull,            \* calls of scheduleResourceToDelete with a null resource so far
    ndrain            \* drain() calls made so far

bvars == <<running_, listen_success_, listen_socket_, app_, eventLoop_,
           serverThread_, thr, promise, queue, nthreads, caller, subscribed,
           received, closeEvents, elsewhere, sent, ran, slow, inbound, calls,
           nmsg, consecStops, raced, fatal>>

pvars == <<servers_, mutex_, srv, ninst, pth, held, pcalls, cleared, lastCall,
           pfatal>>

\* the variables of AsyncTextureReader
rvars == <<gpuWriteIndex, gpuMutex, activeCpuBufferIndex, stagesurfs, cpuBuffers,
           render, cpu, nstage, nsync, reader>>

\* the variables of GsUnique
gvars == <<resourcesToDelete, mtx, gth, deleted, scheduled, nres, nnull, ndrain>>

\* the variables of the utilities of BridgeUtils
uvars == <<rvars, gvars>>

vars == <<bvars, pvars, uvars>>

Gens == 1..MaxGen
Msgs == 1..MaxMsg
AllClients == Clients \cup OtherClients

NotSent == [by |-> "none", loop |-> NULL, aud |-> {}, run |-> FALSE]

IdleCaller == [pc |-> "idle", loop |-> NULL, app |-> NULL, token |-> NULL,
               msg |-> 0, gen |-> 0, lst0 |-> FALSE, lst |-> FALSE]

NoThread == [pc |-> "none", closed |-> FALSE, open |-> FALSE]

\* ------------------------------------------------------------------------
\* BroadcastWebSocketServer: construction
\* ------------------------------------------------------------------------
InitBroadcast ==
    /\ running_ = FALSE
    /\ listen_success_ = FALSE
    /\ listen_socket_ = NULL
    /\ app_ = NULL
    /\ eventLoop_ = NULL
    /\ serverThread_ = [gen |-> 0, joinable |-> FALSE]
    /\ thr = [g \in Gens |-> NoThread]
    /\ promise = [g \in Gens |-> "unset"]
    /\ queue = [g \in Gens |-> <<>>]
    /\ nthreads = 0
    /\ caller = [t \in Callers |-> IdleCaller]
    /\ subscribed = {}
    /\ received = [k \in AllClients |-> <<>>]
    /\ closeEvents = {}
    /\ elsewhere = {}
    /\ sent = [m \in Msgs |-> NotSent]
    /\ ran = {}
    /\ slow = {}
    /\ inbound = 0
    /\ calls = 0
    /\ nmsg = 0
    /\ consecStops = 0
    /\ raced = FALSE
    /\ fatal = FALSE

\* ------------------------------------------------------------------------
\* WebSocketServerPool: construction (an empty map), no server constructed
\* ------------------------------------------------------------------------
Insts == 1..MaxInst

NoServer == [port |-> 0, life |-> "none", running_ |-> FALSE,
             listen_attempted_ |-> FALSE, listening_ |-> FALSE,
             listen_socket_ |-> NULL, joinable |-> FALSE, tpc |-> "none",
             open |-> FALSE, closed |-> FALSE, pending |-> 0, bind |-> "none",
             conn |-> {}, gone |-> {}]

IdleThread == [pc |-> "idle", port |-> 0, cur |-> NULL, ctx |-> "none",
               snap |-> {}, rel |-> {}, all |-> {}]

InitPool ==
    /\ servers_ = [p \in Ports |-> NULL]
    /\ mutex_ = "free"
    /\ srv = [i \in Insts |-> NoServer]
    /\ ninst = 0
    /\ pth = [t \in PoolThreads |-> IdleThread]
    /\ held = [t \in PoolThreads |-> NULL]
    /\ pcalls = 0
    /\ cleared = FALSE
    /\ lastCall = "none"
    /\ pfatal = FALSE

\* AsyncTextureReader::AsyncTextureReader: two empty CPU buffers, two empty
\* staging surfaces (frame 0 stands for no frame)
InitReader ==
    /\ gpuWriteIndex = 0
    /\ gpuMutex = "free"
    /\ activeCpuBufferIndex = 0
    /\ stagesurfs = [i \in {0, 1} |-> 0]
    /\ cpuBuffers = [i \in {0, 1} |-> 0]
    /\ render = [pc |-> "idle", surf |-> 0]
    /\ cpu = [pc |-> "idle", gpuReadIndex |-> 0, backBufferIndex |-> 0]
    /\ nstage = 0
    /\ nsync = 0
    /\ reader = [buf |-> 0, n |-> 0]

\* GsUnique: the function-local statics, an unlocked mutex and an empty deque
GsThreads == {"g1", "g2"}
Resources == 1..MaxRes

IdleGs == [pc |-> "idle", resource |-> NULL, resources |-> <<>>, before |-> {}]

InitGs ==
    /\ resourcesToDelete = <<>>
    /\ mtx = "free"
    /\ gth = [t \in GsThreads |-> IdleGs]
    /\ deleted = [x \in Resources |-> 0]
    /\ scheduled = {}
    /\ nres = 0
    /\ nnull = 0
    /\ ndrain = 0

Init == InitBroadcast /\ InitPool /\ InitReader /\ InitGs

\* isListening(): the atomic flag, read without a lock
isListening == listen_success_

\* the loop object of generation g is freed when its thread has exited
LoopGone(g) == g # NULL /\ thr[g].pc = "done"

\* a foreign thread is inside start() / stop() / broadcast()
InStart(t) == caller[t].pc \in {"start_set", "start_spawn", "start_wait",
                                "start_chk", "start_join", "start_ret"}
InStop(t) == caller[t].pc \in {"stop_copy", "stop_defer", "stop_join",
                               "stop_fin", "stop_else"}
InBroadcast(t) == caller[t].pc \in {"bc_chk", "bc_defer"}

Goto(t, label) == [caller EXCEPT ![t].pc = label]
Return(t) == [caller EXCEPT ![t] = IdleCaller]

\* a start() or stop() call begins: it overlaps another one when some other
\* thread is inside start() or stop() (history)
Overlaps(t) == \E u \in Callers \ {t} : InStart(u) \/ InStop(u)

\* std::thread::join() behind "if (serverThread_.joinable())": returns at
\* once when the thread object is not joinable, else when the thread exited
CanJoin == IF serverThread_.joinable THEN thr[serverThread_.gen].pc = "done" ELSE TRUE
Joined == [serverThread_ EXCEPT !.joinable = FALSE]

\* ------------------------------------------------------------------------
\* BroadcastWebSocketServer::start()
\* ------------------------------------------------------------------------
\* "if (running_) return listen_success_;"  (the flag is read here, the
\* result in StartRet)
StartCall(t) ==
    /\ ~fatal /\ caller[t].pc = "idle" /\ calls < MaxCalls
    /\ calls' = calls + 1
    /\ consecStops' = 0
    /\ raced' = (raced \/ Overlaps(t))
    /\ LET spawning == {u \in Callers : caller[u].pc \in {"start_set", "start_spawn"}}
       IN IF running_
          THEN caller' = Goto(t, "start_ret")
          ELSE /\ nthreads + Cardinality(spawning) < MaxGen
               /\ caller' = Goto(t, "start_set")
    /\ UNCHANGED <<running_, listen_success_, listen_socket_, app_, eventLoop_,
                   serverThread_, thr, promise, queue, nthreads, subscribed,
                   received, closeEvents, nmsg, fatal>>
    /\ UNCHANGED <<elsewhere, sent, ran>>
    /\ UNCHANGED <<slow, inbound>>
    /\ UNCHANGED pvars
    /\ UNCHANGED uvars

\* "running_ = true;"
StartSetRunning(t) ==
    /\ ~fatal /\ caller[t].pc = "start_set"
    /\ running_' = TRUE
    /\ caller' = Goto(t, "start_spawn")
    /\ UNCHANGED <<raced, listen_success_, listen_socket_, app_, eventLoop_, serverThread_,
                   thr, promise, queue, nthreads, subscribed, received,
                   closeEvents, calls, nmsg, consecStops, fatal>>
    /\ UNCHANGED <<elsewhere, sent, ran>>
    /\ UNCHANGED <<slow, inbound>>
    /\ UNCHANGED pvars
    /\ UNCHANGED uvars

\* "serverThread_ = std::thread(...)": move-assigning onto a joinable
\* std::thread calls std::terminate
StartSpawn(t) ==
    /\ ~fatal /\ caller[t].pc = "start_spawn"
    /\ IF serverThread_.joinable
       THEN /\ fatal' = TRUE
            /\ UNCHANGED <<serverThread_, thr, nthreads, caller>>
       ELSE /\ nthreads' = nthreads + 1
            /\ serverThread_' = [gen |-> nthreads + 1, joinable |-> TRUE]
            /\ thr' = [thr EXCEPT ![nthreads + 1] =
                          [pc |-> "init", closed |-> FALSE, open |-> FALSE]]
            /\ caller' = [caller EXCEPT ![t].pc = "start_wait", ![t].gen = nthreads + 1]
            /\ UNCHANGED fatal
    /\ UNCHANGED <<raced, running_, listen_success_, listen_socket_, app_, eventLoop_,
                   promise, queue, subscribed, received, closeEvents, calls,
                   nmsg, consecStops>>
    /\ UNCHANGED <<elsewhere, sent, ran>>
    /\ UNCHANGED <<slow, inbound>>
    /\ UNCHANGED pvars
    /\ UNCHANGED uvars

\* faulty variant of StartGet: start() itself stores the handles of the
\* loop thread that reported a successful bind
StartGetPublishes(t) ==
    /\ ~fatal /\ caller[t].pc = "start_wait"
    /\ promise[caller[t].gen] # "unset"
    /\ listen_success_' = (promise[caller[t].gen] = "true")
    /\ app_' = IF promise[caller[t].gen] = "true" THEN caller[t].gen ELSE app_
    /\ eventLoop_' = IF promise[caller[t].gen] = "true" THEN caller[t].gen
                     ELSE eventLoop_
    /\ caller' = Goto(t, "start_chk")
    /\ UNCHANGED <<raced, running_, listen_socket_, serverThread_, thr,
                   promise, queue, nthreads, subscribed, received, closeEvents,
                   calls, nmsg, consecStops, fatal>>
    /\ UNCHANGED <<elsewhere, sent, ran>>
    /\ UNCHANGED <<slow, inbound>>
    /\ UNCHANGED pvars
    /\ UNCHANGED uvars

\* "listen_success_ = listen_future.get();"
StartGet(t) ==
    /\ ~fatal /\ caller[t].pc = "start_wait"
    /\ promise[caller[t].gen] # "unset"
    /\ listen_success_' = (promise[caller[t].gen] = "true")
    /\ caller' = Goto(t, "start_chk")
    /\ UNCHANGED <<raced, running_, listen_socket_, app_, eventLoop_, serverThread_, thr,
                   promise, queue, nthreads, subscribed, received, closeEvents,
                   calls, nmsg, consecStops, fatal>>
    /\ UNCHANGED <<elsewhere, sent, ran>>
    /\ UNCHANGED <<slow, inbound>>
    /\ UNCHANGED pvars
    /\ UNCHANGED uvars

\* "if (!listen_success_) { running_ = false; ..."
StartCheck(t) ==
    /\ ~fatal /\ caller[t].pc = "start_chk"
    /\ IF ~listen_success_
       THEN running_' = FALSE /\ caller' = Goto(t, "start_join")
       ELSE UNCHANGED running_ /\ caller' = Goto(t, "start_ret")
    /\ UNCHANGED <<raced, listen_success_, listen_socket_, app_, eventLoop_, serverThread_,
                   thr, promise, queue, nthreads, subscribed, received,
                   closeEvents, calls, nmsg, consecStops, fatal>>
    /\ UNCHANGED <<elsewhere, sent, ran>>
    /\ UNCHANGED <<slow, inbound>>
    /\ UNCHANGED pvars
    /\ UNCHANGED uvars

\* faulty variant of StartJoin: start() returns after a failed bind without joining
StartJoinSkipped(t) ==
    /\ ~fatal /\ caller[t].pc = "start_join"
    /\ caller' = Goto(t, "start_ret")
    /\ UNCHANGED <<raced, running_, listen_success_, listen_socket_, app_, eventLoop_,
                   serverThread_, thr, promise, queue, nthreads, subscribed,
                   received, closeEvents, calls, nmsg, consecStops, fatal>>
    /\ UNCHANGED <<elsewhere, sent, ran>>
    /\ UNCHANGED <<slow, inbound>>
    /\ UNCHANGED pvars
    /\ UNCHANGED uvars

\* "if (serverThread_.joinable()) serverThread_.join(); }"
StartJoin(t) ==
    /\ ~fatal /\ caller[t].pc = "start_join"
    /\ CanJoin
    /\ serverThread_' = Joined
    /\ caller' = Goto(t, "start_ret")
    /\ UNCHANGED <<raced, running_, listen_success_, listen_socket_, app_, eventLoop_, thr,
                   promise, queue, nthreads, subscribed, received, closeEvents,
                   calls, nmsg, consecStops, fatal>>
    /\ UNCHANGED <<elsewhere, sent, ran>>
    /\ UNCHANGED <<slow, inbound>>
    /\ UNCHANGED pvars
    /\ UNCHANGED uvars

\* "return listen_success_;"
StartRet(t) ==
    /\ ~fatal /\ caller[t].pc = "start_ret"
    /\ caller' = Return(t)
    /\ consecStops' = 0
    /\ UNCHANGED <<raced, running_, listen_success_, listen_socket_, app_, eventLoop_,
                   serverThread_, thr, promise, queue, nthreads, subscribed,
                   received, closeEvents, calls, nmsg, fatal>>
    /\ UNCHANGED <<elsewhere, sent, ran>>
    /\ UNCHANGED <<slow, inbound>>
    /\ UNCHANGED pvars
    /\ UNCHANGED uvars

\* ------------------------------------------------------------------------
\* uWS::Loop::defer, called from a foreign thread through a copied pointer
\* ------------------------------------------------------------------------
Closure(kind, app, arg) == [kind |-> kind, app |-> app, arg |-> arg]

\* faulty variant of Defer: the closure is put in front of the ones waiting
DeferLifo(g, c) ==
    IF LoopGone(g)
    THEN /\ fatal' \in {TRUE, FALSE}
         /\ UNCHANGED queue
    ELSE /\ queue' = [queue EXCEPT ![g] = <<c>> \o @]
         /\ UNCHANGED fatal

\* defer through a pointer to a loop that no longer exists is a use after
\* free: the process crashes, or the closure is written into freed memory
\* and lost; else the closure joins the loop's queue behind the ones waiting
Defer(g, c) ==
    IF LoopGone(g)
    THEN /\ fatal' \in {TRUE, FALSE}
         /\ UNCHANGED queue
    ELSE /\ queue' = [queue EXCEPT ![g] = Append(@, c)]
         /\ UNCHANGED fatal

\* ------------------------------------------------------------------------
\* BroadcastWebSocketServer::stop()
\* ------------------------------------------------------------------------
\* faulty variant of StopCall: the flag is cleared but its old value is not tested,
\* so every call runs the teardown
StopCallUntested(t) ==
    /\ ~fatal /\ caller[t].pc = "idle" /\ calls < MaxCalls
    /\ calls' = calls + 1
    /\ running_' = FALSE
    /\ raced' = (raced \/ Overlaps(t))
    /\ caller' = Goto(t, "stop_copy")
    /\ UNCHANGED <<listen_success_, listen_socket_, app_, eventLoop_, serverThread_,
                   thr, promise, queue, nthreads, subscribed, received,
                   closeEvents, nmsg, consecStops, fatal>>
    /\ UNCHANGED <<elsewhere, sent, ran>>
    /\ UNCHANGED <<slow, inbound>>
    /\ UNCHANGED pvars
    /\ UNCHANGED uvars

\* "if (running_.exchange(false))"
StopCall(t) ==
    /\ ~fatal /\ caller[t].pc = "idle" /\ calls < MaxCalls
    /\ calls' = calls + 1
    /\ running_' = FALSE
    /\ raced' = (raced \/ Overlaps(t))
    /\ caller' = Goto(t, IF running_ THEN "stop_copy" ELSE "stop_else")
    /\ UNCHANGED <<listen_success_, listen_socket_, app_, eventLoop_, serverThread_,
                   thr, promise, queue, nthreads, subscribed, received,
                   closeEvents, nmsg, consecStops, fatal>>
    /\ UNCHANGED <<elsewhere, sent, ran>>
    /\ UNCHANGED <<slow, inbound>>
    /\ UNCHANGED pvars
    /\ UNCHANGED uvars

\* under appMutex_: copy the three handles, then null them
StopCopy(t) ==
    /\ ~fatal /\ caller[t].pc = "stop_copy"
    /\ caller' = [caller EXCEPT ![t].pc = "stop_defer",
                                ![t].token = listen_socket_,
                                ![t].loop = eventLoop_,
                                ![t].app = app_]
    /\ listen_socket_' = NULL
    /\ eventLoop_' = NULL
    /\ app_' = NULL
    /\ UNCHANGED <<raced, running_, listen_success_, serverThread_, thr, promise, queue,
                   nthreads, subscribed, received, closeEvents, calls, nmsg,
                   consecStops, fatal>>
    /\ UNCHANGED <<elsewhere, sent, ran>>
    /\ UNCHANGED <<slow, inbound>>
    /\ UNCHANGED pvars
    /\ UNCHANGED uvars

\* "if (loopToDefer) loopToDefer->defer([token, app] {...}); else warn"
StopDefer(t) ==
    /\ ~fatal /\ caller[t].pc = "stop_defer"
    /\ IF caller[t].loop # NULL
       THEN Defer(caller[t].loop, Closure("close", caller[t].app, caller[t].token))
       ELSE UNCHANGED <<queue, fatal>>
    /\ caller' = Goto(t, "stop_join")
    /\ UNCHANGED <<raced, running_, listen_success_, listen_socket_, app_, eventLoop_,
                   serverThread_, thr, promise, nthreads, subscribed, received,
                   closeEvents, calls, nmsg, consecStops>>
    /\ UNCHANGED <<elsewhere, sent, ran>>
    /\ UNCHANGED <<slow, inbound>>
    /\ UNCHANGED pvars
    /\ UNCHANGED uvars

\* "if (serverThread_.joinable()) serverThread_.join();"
StopJoin(t) ==
    /\ ~fatal /\ caller[t].pc = "stop_join"
    /\ CanJoin
    /\ serverThread_' = Joined
    /\ caller' = Goto(t, "stop_fin")
    /\ UNCHANGED <<raced, running_, listen_success_, listen_socket_, app_, eventLoop_, thr,
                   promise, queue, nthreads, subscribed, received, closeEvents,
                   calls, nmsg, consecStops, fatal>>
    /\ UNCHANGED <<elsewhere, sent, ran>>
    /\ UNCHANGED <<slow, inbound>>
    /\ UNCHANGED pvars
    /\ UNCHANGED uvars

\* "listen_success_ = false;" and return
StopFin(t) ==
    /\ ~fatal /\ caller[t].pc = "stop_fin"
    /\ listen_success_' = FALSE
    /\ caller' = Return(t)
    /\ consecStops' = IF consecStops < 2 THEN consecStops + 1 ELSE 2
    /\ UNCHANGED <<raced, running_, listen_socket_, app_, eventLoop_, serverThread_, thr,
                   promise, queue, nthreads, subscribed, received, closeEvents,
                   calls, nmsg, fatal>>
    /\ UNCHANGED <<elsewhere, sent, ran>>
    /\ UNCHANGED <<slow, inbound>>
    /\ UNCHANGED pvars
    /\ UNCHANGED uvars

\* running_ was already false: "if (serverThread_.joinable()) join" and return
StopElse(t) ==
    /\ ~fatal /\ caller[t].pc = "stop_else"
    /\ CanJoin
    /\ serverThread_' = Joined
    /\ caller' = Return(t)
    /\ consecStops' = IF consecStops < 2 THEN consecStops + 1 ELSE 2
    /\ UNCHANGED <<raced, running_, listen_success_, listen_socket_, app_, eventLoop_, thr,
                   promise, queue, nthreads, subscribed, received, closeEvents,
                   calls, nmsg, fatal>>
    /\ UNCHANGED <<elsewhere, sent, ran>>
    /\ UNCHANGED <<slow, inbound>>
    /\ UNCHANGED pvars
    /\ UNCHANGED uvars

\* ------------------------------------------------------------------------
\* BroadcastWebSocketServer::broadcast(message)
\* ------------------------------------------------------------------------
\* the server is Listening: isListening() is true, or its loop thread has
\* bound the port and is in the run phase
Listening == listen_success_ \/ \E g \in Gens : thr[g].pc = "run"

\* under appMutex_: "loopToDefer = eventLoop_; appToPublish = app_;"
\* lst0 records whether the server was Listening at this point (history)
BroadcastCall(t) ==
    /\ ~fatal /\ caller[t].pc = "idle" /\ calls < MaxCalls /\ nmsg < MaxMsg
    /\ calls' = calls + 1
    /\ nmsg' = nmsg + 1
    /\ caller' = [caller EXCEPT ![t] = [IdleCaller EXCEPT !.pc = "bc_chk",
                                                          !.loop = eventLoop_,
                                                          !.app = app_,
                                                          !.lst0 = Listening,
                                                          !.msg = nmsg + 1]]
    /\ sent' = [sent EXCEPT ![nmsg + 1] =
                    [by |-> t, loop |-> eventLoop_, aud |-> subscribed,
                     run |-> IF eventLoop_ = NULL THEN FALSE
                             ELSE thr[eventLoop_].pc = "run"]]
    /\ UNCHANGED <<raced, running_, listen_success_, listen_socket_, app_, eventLoop_,
                   serverThread_, thr, promise, queue, nthreads, subscribed,
                   received, closeEvents, consecStops, fatal, elsewhere, ran>>
    /\ UNCHANGED <<slow, inbound>>
    /\ UNCHANGED pvars
    /\ UNCHANGED uvars

\* "if (loopToDefer && running_) ... else if (!running_) warn else error";
\* lst records whether the server was Listening at this point (history)
BroadcastCheck(t) ==
    /\ ~fatal /\ caller[t].pc = "bc_chk"
    /\ IF caller[t].loop # NULL /\ running_
       THEN caller' = [caller EXCEPT ![t].pc = "bc_defer", ![t].lst = Listening]
       ELSE caller' = Return(t)
    /\ UNCHANGED <<raced, running_, listen_success_, listen_socket_, app_, eventLoop_,
                   serverThread_, thr, promise, queue, nthreads, subscribed,
                   received, closeEvents, calls, nmsg, consecStops, fatal>>
    /\ UNCHANGED <<elsewhere, sent, ran>>
    /\ UNCHANGED <<slow, inbound>>
    /\ UNCHANGED pvars
    /\ UNCHANGED uvars

\* "loopToDefer->defer([app, msg] {...});"
BroadcastDefer(t) ==
    /\ ~fatal /\ caller[t].pc = "bc_defer"
    /\ Defer(caller[t].loop, Closure("pub", caller[t].app, caller[t].msg))
    /\ caller' = Return(t)
    /\ UNCHANGED <<raced, running_, listen_success_, listen_socket_, app_, eventLoop_,
                   serverThread_, thr, promise, nthreads, subscribed, received,
                   closeEvents, calls, nmsg, consecStops>>
    /\ UNCHANGED <<elsewhere, sent, ran>>
    /\ UNCHANGED <<slow, inbound>>
    /\ UNCHANGED pvars
    /\ UNCHANGED uvars

\* ------------------------------------------------------------------------
\* The server thread (the lambda start() hands to std::thread)
\* ------------------------------------------------------------------------
\* under appMutex_: "app_ = &app; eventLoop_ = loop;"
ThreadInit(g) ==
    /\ ~fatal /\ thr[g].pc = "init"
    /\ app_' = g
    /\ eventLoop_' = g
    /\ thr' = [thr EXCEPT ![g].pc = "listen"]
    /\ UNCHANGED <<raced, running_, listen_success_, listen_socket_, serverThread_,
                   promise, queue, nthreads, caller, subscribed, received,
                   closeEvents, calls, nmsg, consecStops, fatal>>
    /\ UNCHANGED <<elsewhere, sent, ran>>
    /\ UNCHANGED <<slow, inbound>>
    /\ UNCHANGED pvars
    /\ UNCHANGED uvars

\* faulty variant of ThreadListen: the listen callback does not store the
\* token
ThreadListenNoToken(g) ==
    /\ ~fatal /\ thr[g].pc = "listen"
    /\ \E ok \in BOOLEAN :
          /\ app_' = IF ok THEN app_ ELSE NULL
          /\ eventLoop_' = IF ok THEN eventLoop_ ELSE NULL
          /\ promise' = [promise EXCEPT ![g] = IF ok THEN "true" ELSE "false"]
          /\ thr' = [thr EXCEPT ![g] = [pc |-> IF ok THEN "run" ELSE "cleanup",
                                        closed |-> FALSE, open |-> ok]]
    /\ UNCHANGED <<raced, running_, listen_success_, listen_socket_, serverThread_,
                   queue, nthreads, caller, subscribed, received, closeEvents,
                   calls, nmsg, consecStops, fatal>>
    /\ UNCHANGED <<elsewhere, sent, ran>>
    /\ UNCHANGED <<slow, inbound>>
    /\ UNCHANGED pvars
    /\ UNCHANGED uvars

\* app.listen(port_, callback): the callback, under appMutex_, stores the
\* token, resets the handles when the bind failed and sets the promise;
\* then "if (success) app.run() else exit"
ThreadListen(g) ==
    /\ ~fatal /\ thr[g].pc = "listen"
    /\ \E ok \in BOOLEAN :
          /\ listen_socket_' = IF ok THEN g ELSE NULL
          /\ app_' = IF ok THEN app_ ELSE NULL
          /\ eventLoop_' = IF ok THEN eventLoop_ ELSE NULL
          /\ promise' = [promise EXCEPT ![g] = IF ok THEN "true" ELSE "false"]
          /\ thr' = [thr EXCEPT ![g] = [pc |-> IF ok THEN "run" ELSE "cleanup",
                                        closed |-> FALSE, open |-> ok]]
    /\ UNCHANGED <<raced, running_, listen_success_, serverThread_, queue, nthreads,
                   caller, subscribed, received, closeEvents, calls, nmsg,
                   consecStops, fatal>>
    /\ UNCHANGED <<elsewhere, sent, ran>>
    /\ UNCHANGED <<slow, inbound>>
    /\ UNCHANGED pvars
    /\ UNCHANGED uvars

\* faulty variant of Publish: the frame goes to every client of the process,
\* whichever server it is connected to
PublishAll(m) ==
    [k \in AllClients |->
        IF k \in subscribed \cup elsewhere THEN Append(received[k], m) ELSE received[k]]

\* "app->publish(broadcastTopic, msg, TEXT)": one frame to every client
\* subscribed to the topic of this server's app; the frame is skipped for a
\* client whose buffer it would take over maxBackpressure
Publish(m) ==
    [k \in AllClients |->
        IF k \in subscribed \ slow THEN Append(received[k], m) ELSE received[k]]

\* faulty variant of closeOnBackpressureLimit: the option is set
closeOnBackpressureLimitSet == TRUE

\* "behavior.closeOnBackpressureLimit = false;"
closeOnBackpressureLimit == FALSE

\* "behavior.idleTimeout = 0;": seconds of silence after which the transport
\* closes a connection, 0 for never
idleTimeout == 0

\* the connections a publish closes for being over the backpressure limit
Overrun == IF closeOnBackpressureLimit THEN subscribed \cap slow ELSE {}

\* faulty variant of LoopRun: broadcast's closure publishes without testing
\* app and running_ again
LoopRunUnchecked(g) ==
    /\ ~fatal /\ thr[g].pc = "run" /\ queue[g] # <<>>
    /\ LET c == Head(queue[g]) IN
         /\ queue' = [queue EXCEPT ![g] = Tail(@)]
         /\ ran' = IF c.kind = "pub" THEN ran \cup {c.arg} ELSE ran
         /\ IF c.kind = "pub"
            THEN /\ received' = Publish(c.arg)
                 /\ subscribed' = subscribed \ Overrun
                 /\ closeEvents' = closeEvents \cup Overrun
                 /\ UNCHANGED thr
            ELSE /\ thr' = [thr EXCEPT ![g].open = IF c.arg # NULL \/ c.app # NULL
                                                  THEN FALSE ELSE @,
                                       ![g].closed = IF c.app # NULL THEN TRUE ELSE @]
                 /\ subscribed' = IF c.app # NULL THEN {} ELSE subscribed
                 /\ closeEvents' = IF c.app # NULL
                                   THEN closeEvents \cup subscribed ELSE closeEvents
                 /\ UNCHANGED received
    /\ UNCHANGED <<raced, running_, listen_success_, listen_socket_, app_, eventLoop_,
                   serverThread_, promise, nthreads, caller, calls, nmsg,
                   consecStops, fatal>>
    /\ UNCHANGED <<elsewhere, sent>>
    /\ UNCHANGED <<slow, inbound>>
    /\ UNCHANGED pvars
    /\ UNCHANGED uvars

\* app.run() executes the next deferred closure on the loop thread
\*   broadcast's: "if (app && running_) app->publish(...) else warn"
\*   stop's:      "if (token) us_listen_socket_close(0, token);
\*                 if (app) app->close(); else warn"
LoopRun(g) ==
    /\ ~fatal /\ thr[g].pc = "run" /\ queue[g] # <<>>
    /\ LET c == Head(queue[g]) IN
         /\ queue' = [queue EXCEPT ![g] = Tail(@)]
         /\ ran' = IF c.kind = "pub" THEN ran \cup {c.arg} ELSE ran
         /\ IF c.kind = "pub"
            THEN /\ received' = IF c.app # NULL /\ running_
                                THEN Publish(c.arg) ELSE received
                 /\ subscribed' = IF c.app # NULL /\ running_
                                  THEN subscribed \ Overrun ELSE subscribed
                 /\ closeEvents' = IF c.app # NULL /\ running_
                                   THEN closeEvents \cup Overrun ELSE closeEvents
                 /\ UNCHANGED thr
            ELSE /\ thr' = [thr EXCEPT ![g].open = IF c.arg # NULL \/ c.app # NULL
                                                  THEN FALSE ELSE @,
                                       ![g].closed = IF c.app # NULL THEN TRUE ELSE @]
                 /\ subscribed' = IF c.app # NULL THEN {} ELSE subscribed
                 /\ closeEvents' = IF c.app # NULL
                                   THEN closeEvents \cup subscribed ELSE closeEvents
                 /\ UNCHANGED received
    /\ UNCHANGED <<raced, running_, listen_success_, listen_socket_, app_, eventLoop_,
                   serverThread_, promise, nthreads, caller, calls, nmsg,
                   consecStops, fatal>>
    /\ UNCHANGED <<elsewhere, sent>>
    /\ UNCHANGED <<slow, inbound>>
    /\ UNCHANGED pvars
    /\ UNCHANGED uvars

\* app.run() returns once the app has been closed; closures still queued
\* are never executed
LoopExit(g) ==
    /\ ~fatal /\ thr[g].pc = "run" /\ thr[g].closed
    /\ thr' = [thr EXCEPT ![g].pc = "cleanup"]
    /\ queue' = [queue EXCEPT ![g] = <<>>]
    /\ UNCHANGED <<raced, running_, listen_success_, listen_socket_, app_, eventLoop_,
                   serverThread_, promise, nthreads, caller, subscribed, received,
                   closeEvents, calls, nmsg, consecStops, fatal>>
    /\ UNCHANGED <<elsewhere, sent, ran>>
    /\ UNCHANGED <<slow, inbound>>
    /\ UNCHANGED pvars
    /\ UNCHANGED uvars

\* an exception is raised while app.run() services the loop: the lambda has
\* no handler around app.run(), the exception leaves the thread function
\* and std::terminate is called
ThreadThrow(g) ==
    /\ ~fatal /\ thr[g].pc = "run"
    /\ thr' = [thr EXCEPT ![g].pc = "thrown"]
    /\ fatal' = TRUE
    /\ UNCHANGED <<raced, running_, listen_success_, listen_socket_, app_, eventLoop_,
                   serverThread_, promise, queue, nthreads, caller, subscribed,
                   received, closeEvents, calls, nmsg, consecStops>>
    /\ UNCHANGED <<elsewhere, sent, ran>>
    /\ UNCHANGED <<slow, inbound>>
    /\ UNCHANGED pvars
    /\ UNCHANGED uvars

\* under appMutex_: "app_ = nullptr; listen_socket_ = nullptr; eventLoop_ = nullptr;"
ThreadCleanup(g) ==
    /\ ~fatal /\ thr[g].pc = "cleanup"
    /\ app_' = NULL
    /\ listen_socket_' = NULL
    /\ eventLoop_' = NULL
    /\ thr' = [thr EXCEPT ![g].pc = "reset_running"]
    /\ UNCHANGED <<raced, running_, listen_success_, serverThread_, promise, queue,
                   nthreads, caller, subscribed, received, closeEvents, calls,
                   nmsg, consecStops, fatal>>
    /\ UNCHANGED <<elsewhere, sent, ran>>
    /\ UNCHANGED <<slow, inbound>>
    /\ UNCHANGED pvars
    /\ UNCHANGED uvars

\* "running_ = false;"
ThreadResetRunning(g) ==
    /\ ~fatal /\ thr[g].pc = "reset_running"
    /\ running_' = FALSE
    /\ thr' = [thr EXCEPT ![g].pc = "reset_listen"]
    /\ UNCHANGED <<raced, listen_success_, listen_socket_, app_, eventLoop_, serverThread_,
                   promise, queue, nthreads, caller, subscribed, received,
                   closeEvents, calls, nmsg, consecStops, fatal>>
    /\ UNCHANGED <<elsewhere, sent, ran>>
    /\ UNCHANGED <<slow, inbound>>
    /\ UNCHANGED pvars
    /\ UNCHANGED uvars

\* "listen_success_ = false;" and the lambda returns: the thread has exited
ThreadResetListen(g) ==
    /\ ~fatal /\ thr[g].pc = "reset_listen"
    /\ listen_success_' = FALSE
    /\ thr' = [thr EXCEPT ![g].pc = "done"]
    /\ UNCHANGED <<raced, running_, listen_socket_, app_, eventLoop_, serverThread_,
                   promise, queue, nthreads, caller, subscribed, received,
                   closeEvents, calls, nmsg, consecStops, fatal>>
    /\ UNCHANGED <<elsewhere, sent, ran>>
    /\ UNCHANGED <<slow, inbound>>
    /\ UNCHANGED pvars
    /\ UNCHANGED uvars

\* behavior.open: a client connects to the listening socket and is
\* subscribed to the topic
ClientOpen(k) ==
    /\ ~fatal /\ k \notin subscribed
    /\ \E g \in Gens : thr[g].pc = "run" /\ thr[g].open
    /\ subscribed' = subscribed \cup {k}
    /\ UNCHANGED <<raced, running_, listen_success_, listen_socket_, app_, eventLoop_,
                   serverThread_, thr, promise, queue, nthreads, caller, received,
                   closeEvents, calls, nmsg, consecStops, fatal>>
    /\ UNCHANGED <<elsewhere, sent, ran>>
    /\ UNCHANGED <<slow, inbound>>
    /\ UNCHANGED pvars
    /\ UNCHANGED uvars

\* behavior.open of the server of a different port: the client is
\* subscribed to the topic of that server's app
ClientOpenElsewhere(k) ==
    /\ ~fatal /\ k \notin elsewhere
    /\ elsewhere' = elsewhere \cup {k}
    /\ UNCHANGED <<raced, running_, listen_success_, listen_socket_, app_, eventLoop_,
                   serverThread_, thr, promise, queue, nthreads, caller, subscribed,
                   received, closeEvents, sent, ran, calls, nmsg, consecStops, fatal>>
    /\ UNCHANGED <<slow, inbound>>
    /\ UNCHANGED pvars
    /\ UNCHANGED uvars

\* a connected client stops reading and stays silent: with an idle
\* timeout the transport closes the connection; without one the connection
\* stays and its buffer fills up to the backpressure ceiling
ClientSilent(k) ==
    /\ ~fatal /\ k \in subscribed \ slow
    /\ \E g \in Gens : thr[g].pc = "run" /\ ~thr[g].closed
    /\ IF idleTimeout > 0
       THEN /\ subscribed' = subscribed \ {k}
            /\ closeEvents' = closeEvents \cup {k}
            /\ UNCHANGED slow
       ELSE /\ slow' = slow \cup {k}
            /\ UNCHANGED <<subscribed, closeEvents>>
    /\ UNCHANGED <<raced, running_, listen_success_, listen_socket_, app_, eventLoop_,
                   serverThread_, thr, promise, queue, nthreads, caller, received,
                   calls, nmsg, consecStops, fatal>>
    /\ UNCHANGED <<elsewhere, sent, ran, inbound>>
    /\ UNCHANGED pvars
    /\ UNCHANGED uvars

\* behavior.drain: the client has read what was buffered for it (the
\* handler does nothing)
ClientDrains(k) ==
    /\ ~fatal /\ k \in subscribed \cap slow
    /\ \E g \in Gens : thr[g].pc = "run" /\ ~thr[g].closed
    /\ slow' = slow \ {k}
    /\ UNCHANGED <<raced, running_, listen_success_, listen_socket_, app_, eventLoop_,
                   serverThread_, thr, promise, queue, nthreads, caller, subscribed,
                   received, closeEvents, calls, nmsg, consecStops, fatal>>
    /\ UNCHANGED <<elsewhere, sent, ran, inbound>>
    /\ UNCHANGED pvars
    /\ UNCHANGED uvars

\* faulty variant of ClientMessage: the message is sent on to the clients
\* of the topic
ClientMessageEcho(k) ==
    /\ ~fatal /\ k \in subscribed /\ inbound < MaxInbound
    /\ \E g \in Gens : thr[g].pc = "run" /\ ~thr[g].closed
    /\ inbound' = inbound + 1
    /\ received' = Publish(0)
    /\ UNCHANGED <<raced, running_, listen_success_, listen_socket_, app_, eventLoop_,
                   serverThread_, thr, promise, queue, nthreads, caller, subscribed,
                   closeEvents, calls, nmsg, consecStops, fatal>>
    /\ UNCHANGED <<elsewhere, sent, ran, slow>>
    /\ UNCHANGED pvars
    /\ UNCHANGED uvars

\* behavior.message: a connected client sends a message; the handler has an
\* empty body
ClientMessage(k) ==
    /\ ~fatal /\ k \in subscribed /\ inbound < MaxInbound
    /\ \E g \in Gens : thr[g].pc = "run" /\ ~thr[g].closed
    /\ inbound' = inbound + 1
    /\ UNCHANGED <<raced, running_, listen_success_, listen_socket_, app_, eventLoop_,
                   serverThread_, thr, promise, queue, nthreads, caller, subscribed,
                   received, closeEvents, calls, nmsg, consecStops, fatal>>
    /\ UNCHANGED <<elsewhere, sent, ran, slow>>
    /\ UNCHANGED pvars
    /\ UNCHANGED uvars

NextBroadcast ==
    \/ \E t \in Callers :
          \/ StartCall(t) \/ StartSetRunning(t) \/ StartSpawn(t) \/ StartGet(t)
          \/ StartCheck(t) \/ StartJoin(t) \/ StartRet(t)
          \/ StopCall(t) \/ StopCopy(t) \/ StopDefer(t) \/ StopJoin(t)
          \/ StopFin(t) \/ StopElse(t)
          \/ BroadcastCall(t) \/ BroadcastCheck(t) \/ BroadcastDefer(t)
    \/ \E g \in Gens :
          \/ ThreadInit(g) \/ ThreadListen(g) \/ LoopRun(g) \/ LoopExit(g)
          \/ ThreadThrow(g)
          \/ ThreadCleanup(g) \/ ThreadResetRunning(g) \/ ThreadResetListen(g)
    \/ \E k \in Clients : ClientOpen(k)
    \/ \E k \in OtherClients : ClientOpenElsewhere(k)

SpecBroadcast == Init /\ [][NextBroadcast]_vars

\* one server, one producer thread and the clients of the server: what the
\* clients do besides connecting
NextSession ==
    \/ \E t \in Producers :
          \/ StartCall(t) \/ StartSetRunning(t) \/ StartSpawn(t) \/ StartGet(t)
          \/ StartCheck(t) \/ StartJoin(t) \/ StartRet(t)
          \/ StopCall(t) \/ StopCopy(t) \/ StopDefer(t) \/ StopJoin(t)
          \/ StopFin(t) \/ StopElse(t)
          \/ BroadcastCall(t) \/ BroadcastCheck(t) \/ BroadcastDefer(t)
    \/ \E g \in Gens :
          \/ ThreadInit(g) \/ ThreadListen(g) \/ LoopRun(g) \/ LoopExit(g)
          \/ ThreadThrow(g)
          \/ ThreadCleanup(g) \/ ThreadResetRunning(g) \/ ThreadResetListen(g)
    \/ \E k \in Clients :
          \/ ClientOpen(k) \/ ClientSilent(k) \/ ClientDrains(k) \/ ClientMessage(k)

SpecSession == Init /\ [][NextSession]_vars

\* ------------------------------------------------------------------------
\* Properties of the broadcast server
\* ------------------------------------------------------------------------
Quiet == \A t \in Callers : caller[t].pc = "idle"

\* the loop of generation g has been told to close: stop()'s closure is
\* queued on it or has run
ToldToClose(g) ==
    \/ thr[g].closed
    \/ \E i \in 1..Len(queue[g]) : queue[g][i].kind = "close"

\* a stop() that waits in join() on a loop thread that sits in app.run()
\* and that nothing has told, or will tell, to close
StopStuck(t) ==
    /\ caller[t].pc = "stop_join"
    /\ serverThread_.joinable
    /\ thr[serverThread_.gen].pc = "run"
    /\ ~ToldToClose(serverThread_.gen)

\* C2: while one stop() races with broadcast() calls on a listening server,
\* no broadcast reaches defer through a pointer to the loop of a thread that
\* has exited, and the stop(), which found the loop, never waits forever.
\* (A delivery is one publish on the loop thread: all subscribers or none.)
StopBroadcastRaceSafe ==
    \A t \in Callers :
       /\ (caller[t].pc = "bc_defer" /\ caller[t].lst0 /\ caller[t].lst)
             => ~LoopGone(caller[t].loop)
       /\ (caller[t].pc = "stop_join" /\ caller[t].loop # NULL
             /\ promise[caller[t].loop] = "true") => ~StopStuck(t)

\* C3 (BroadcastWebSocketServer): no stop() called from a foreign thread is
\* left waiting in join() for a loop thread that runs and was never told to
\* close.
BroadcastStopReturns == \A t \in Callers : ~StopStuck(t)

\* C10: a broadcast() that finds the server in a state other than Listening
\* (when it copies the handles and when it tests them) is a no-op: it never
\* goes on to enqueue a closure.
BroadcastNoOpUnlessListening ==
    \A t \in Callers :
       caller[t].pc = "bc_defer" => (caller[t].lst0 \/ caller[t].lst)

\* what start() is about to return, and the generation whose bind it reports
StartResult == listen_success_
StartGen(t) == IF caller[t].gen # 0 THEN caller[t].gen ELSE serverThread_.gen

\* the contract of start() at the moment it returns
StartPost(t) ==
    LET g == StartGen(t) IN
    /\ g # 0 /\ promise[g] # "unset"
    /\ StartResult = (promise[g] = "true")
    /\ ~StartResult => /\ ~serverThread_.joinable
                       /\ thr[g].pc = "done"
                       /\ ~running_
                       /\ ~isListening
    /\ StartResult => thr[g].pc = "run" /\ isListening

Returns(t, label) == caller[t].pc = label /\ caller'[t].pc = "idle"

StoppedState ==
    /\ ~isListening /\ ~running_ /\ ~serverThread_.joinable
    /\ listen_socket_ = NULL /\ app_ = NULL /\ eventLoop_ = NULL
    /\ subscribed = {}

\* the calls made on the server so far came one after another
InSequence == ~raced

\* C9: calling stop() twice in sequence: once a stop() has returned the
\* server is in the stopped state (isListening() false, thread joined, all
\* handles null), and the next stop() takes the "already stopped" branch and
\* returns leaving that state as it is: it defers no closure and closes no
\* socket.
StopIdempotent ==
    /\ []((InSequence /\ Quiet /\ consecStops >= 1) => StoppedState)
    /\ [][/\ (InSequence /\ Quiet /\ consecStops >= 1) =>
                \A t \in Callers : caller'[t].pc # "stop_copy"
          /\ \A t \in Callers :
                (InSequence /\ Returns(t, "stop_else") /\ consecStops >= 1)
                => /\ UNCHANGED <<running_, listen_success_, listen_socket_, app_,
                                  eventLoop_, serverThread_, thr, queue,
                                  subscribed, received, closeEvents>>
                   /\ StoppedState']_vars

\* C9 witness: stop() has returned twice in a row on a server that had
\* been listening with a client connected
StopIdempotentWitness ==
    /\ InSequence /\ Quiet /\ consecStops = 2
    /\ promise[1] = "true" /\ closeEvents # {}

\* the number of frames with payload m that client k has received
Count(m, k) == Cardinality({i \in 1..Len(received[k]) : received[k][i] = m})

\* broadcast(m) has returned and its closure is no longer waiting on a loop
Executed(m) ==
    /\ sent[m].by # "none"
    /\ \A t \in Callers : caller[t].msg # m
    /\ \A g \in Gens : \A i \in 1..Len(queue[g]) :
          ~(queue[g][i].kind = "pub" /\ queue[g][i].arg = m)

\* the loop thread has executed the closure of broadcast(m)
Ran(m) == m \in ran

\* the server whose loop g broadcast(m) copied has been listening since the
\* call: no stop() has begun on it and no start()/stop() calls have raced
StillListening(g) ==
    /\ ~raced /\ running_
    /\ g # NULL /\ thr[g].pc = "run" /\ ~ToldToClose(g)

PerProducerFifo ==
    \A k \in AllClients :
       \A i, j \in 1..Len(received[k]) :
          (i < j /\ sent[received[k][i]].by = sent[received[k][j]].by)
             => received[k][i] < received[k][j]

\* C12 witness: one thread called broadcast(1) and then broadcast(2), and
\* a client has received both
PerProducerFifoWitness ==
    /\ sent[1].by = sent[2].by /\ sent[1].by # "none"
    /\ \E k \in Clients : received[k] = <<1, 2>>

\* no order holds between the broadcasts of different producer threads: a
\* client has received the message of the later call first
CrossProducerReordered ==
    /\ sent[1].by # sent[2].by
    /\ \E k \in Clients : received[k] = <<2, 1>>

\* the lifecycle state of the server object, read off its latest loop
\* thread: Created until the first thread is spawned; Starting until the
\* bind result is known; Listening while the thread is in the run phase;
\* Failed after a failed bind; Stopped once the thread has left the run
\* phase
Life ==
    IF nthreads = 0 THEN "Created"
    ELSE CASE thr[nthreads].pc \in {"init", "listen"} -> "Starting"
           [] thr[nthreads].pc = "run"                -> "Listening"
           [] promise[nthreads] = "false"             -> "Failed"
           [] OTHER                                   -> "Stopped"

\* C16: the lifecycle of a server object only moves forward: once it is
\* Stopped or Failed, no step (in particular no later start() on the same
\* object) brings it back to Starting or Listening.
LifecycleForwardOnly ==
    [][(Life \in {"Stopped", "Failed"}) => ~(Life' \in {"Starting", "Listening"})]_vars

AtRest == ~raced /\ \A t \in Callers : ~InStart(t) /\ ~InStop(t)

RunsPub(g) ==
    /\ thr[g].pc = "run" /\ queue[g] # <<>>
    /\ Head(queue[g]).kind = "pub"
    /\ queue'[g] = Tail(queue[g])

Strong(i) ==
    Cardinality({t \in PoolThreads : held[t] = i})
    + Cardinality({t \in PoolThreads : i \in pth[t].snap \cup pth[t].rel})

\* faulty variant of Expired: an entry is never seen as expired
NeverExpired(i) == FALSE

\* weak_ptr::expired(): the last owning reference is gone (the object may
\* still be inside its destructor)
Expired(i) == srv[i].life \in {"dying", "dead"}

PGoto(t, label) == [pth EXCEPT ![t].pc = label]

\* WebSocketServer::WebSocketServer(port)
Construct(p) == [NoServer EXCEPT !.port = p, !.life = "alive"]

\* WebSocketServer::run(): "if (running_ || listen_attempted_.exchange(true))
\* return; running_ = true; serverThread_ = std::thread(...)"
Run(s) ==
    IF s.running_ \/ s.listen_attempted_
    THEN s
    ELSE [s EXCEPT !.listen_attempted_ = TRUE, !.running_ = TRUE,
                   !.joinable = TRUE, !.tpc = "listen"]

\* faulty variant of CreateAndReturn: the new server is returned but not
\* stored in the map
CreateAndReturnUnregistered(t, p) ==
    /\ ninst' = ninst + 1
    /\ srv' = [srv EXCEPT ![ninst + 1] = Run(Construct(p))]
    /\ UNCHANGED servers_
    /\ held' = [held EXCEPT ![t] = ninst + 1]
    /\ mutex_' = "free"
    /\ pth' = [pth EXCEPT ![t] = IdleThread]

\* make_shared<WebSocketServer>(port); server_ptr->run();
\* servers_[port] = server_ptr; return server_ptr  (the lock is released)
CreateAndReturn(t, p) ==
    /\ ninst' = ninst + 1
    /\ srv' = [srv EXCEPT ![ninst + 1] = Run(Construct(p))]
    /\ servers_' = [servers_ EXCEPT ![p] = ninst + 1]
    /\ held' = [held EXCEPT ![t] = ninst + 1]
    /\ mutex_' = "free"
    /\ pth' = [pth EXCEPT ![t] = IdleThread]

\* ------------------------------------------------------------------------
\* WebSocketServerPool::ensureGetServer(port)
\* ------------------------------------------------------------------------
\* faulty variant of EnsureFind: the map is read without taking the lock
EnsureFindUnlocked(t, p) ==
    /\ ~pfatal /\ pth[t].pc = "idle" /\ held[t] = NULL
    /\ pcalls < MaxPoolCalls /\ ninst < MaxInst
    /\ pcalls' = pcalls + 1
    /\ pth' = [pth EXCEPT ![t].port = p,
                          ![t].pc = IF servers_[p] = NULL \/ Expired(servers_[p])
                                    THEN "ens_create" ELSE "ens_lock"]
    /\ UNCHANGED <<servers_, mutex_, srv, ninst, held, cleared, pfatal>>
    /\ lastCall' = "ensure"
    /\ UNCHANGED bvars
    /\ UNCHANGED uvars

\* lock_guard(mutex_); it = servers_.find(port);
\* needs_creation = (it == end || it->second.expired())
EnsureFind(t, p) ==
    /\ ~pfatal /\ pth[t].pc = "idle" /\ held[t] = NULL
    /\ pcalls < MaxPoolCalls /\ ninst < MaxInst
    /\ mutex_ = "free"
    /\ mutex_' = t
    /\ pcalls' = pcalls + 1
    /\ pth' = [pth EXCEPT ![t].port = p,
                          ![t].pc = IF servers_[p] = NULL \/ Expired(servers_[p])
                                    THEN "ens_create" ELSE "ens_lock"]
    /\ UNCHANGED <<servers_, srv, ninst, held, cleared, pfatal>>
    /\ lastCall' = "ensure"
    /\ UNCHANGED bvars
    /\ UNCHANGED uvars

\* the branch "if (needs_creation)"
EnsureCreate(t) ==
    /\ ~pfatal /\ pth[t].pc = "ens_create"
    /\ CreateAndReturn(t, pth[t].port)
    /\ UNCHANGED <<pcalls, cleared, pfatal>>
    /\ UNCHANGED <<lastCall, bvars>>
    /\ UNCHANGED uvars

\* faulty variant of EnsureLock: a server is created whether or not the
\* entry is live
EnsureLockRecreates(t) ==
    /\ ~pfatal /\ pth[t].pc = "ens_lock"
    /\ CreateAndReturn(t, pth[t].port)
    /\ UNCHANGED <<pcalls, cleared, pfatal>>
    /\ UNCHANGED <<lastCall, bvars>>
    /\ UNCHANGED uvars

\* the branch "else": server_ptr = it->second.lock(); when that fails
\* ("lock failed unexpectedly") a server is created as above
EnsureLock(t) ==
    /\ ~pfatal /\ pth[t].pc = "ens_lock"
    /\ LET i == servers_[pth[t].port] IN
         IF ~Expired(i)
         THEN /\ held' = [held EXCEPT ![t] = i]
              /\ mutex_' = "free"
              /\ pth' = [pth EXCEPT ![t] = IdleThread]
              /\ UNCHANGED <<servers_, srv, ninst>>
         ELSE CreateAndReturn(t, pth[t].port)
    /\ UNCHANGED <<pcalls, cleared, pfatal>>
    /\ UNCHANGED <<lastCall, bvars>>
    /\ UNCHANGED uvars

\* ------------------------------------------------------------------------
\* A caller lets go of its shared_ptr, or calls stop() through it
\* ------------------------------------------------------------------------
\* the last owning reference runs ~WebSocketServer(), which calls stop()
Drop(t) ==
    /\ ~pfatal /\ pth[t].pc = "idle" /\ held[t] # NULL
    /\ pcalls < MaxPoolCalls
    /\ pcalls' = pcalls + 1
    /\ held' = [held EXCEPT ![t] = NULL]
    /\ IF Strong(held[t]) = 1
       THEN /\ srv' = [srv EXCEPT ![held[t]].life = "dying"]
            /\ pth' = [pth EXCEPT ![t].pc = "ws_xchg", ![t].cur = held[t],
                                  ![t].ctx = "dtor"]
       ELSE UNCHANGED <<srv, pth>>
    /\ UNCHANGED <<servers_, mutex_, ninst, cleared, pfatal>>
    /\ lastCall' = "drop"
    /\ UNCHANGED bvars
    /\ UNCHANGED uvars

\* handle->stop()
StopHandle(t) ==
    /\ ~pfatal /\ pth[t].pc = "idle" /\ held[t] # NULL
    /\ pcalls < MaxPoolCalls
    /\ pcalls' = pcalls + 1
    /\ pth' = [pth EXCEPT ![t].pc = "ws_xchg", ![t].cur = held[t], ![t].ctx = "handle"]
    /\ UNCHANGED <<servers_, mutex_, srv, ninst, held, cleared, pfatal>>
    /\ lastCall' = "stop"
    /\ UNCHANGED bvars
    /\ UNCHANGED uvars

\* ------------------------------------------------------------------------
\* WebSocketServer::stop(), run by thread t on instance pth[t].cur
\* ------------------------------------------------------------------------
\* where stop() returns to: the caller of handle->stop(), the loop of
\* stopAll(), or the destructor that called it
AfterStop(t) ==
    CASE pth[t].ctx = "handle" -> [pth EXCEPT ![t] = IdleThread]
      [] pth[t].ctx = "sa"     -> [pth EXCEPT ![t].pc = "sa_next", ![t].cur = NULL]
      [] OTHER                 -> [pth EXCEPT ![t].pc = "dtor_free"]

\* "if (running_.exchange(false)) {...} else { log; }"
WsExchange(t) ==
    /\ ~pfatal /\ pth[t].pc = "ws_xchg"
    /\ LET i == pth[t].cur IN
         IF srv[i].running_
         THEN /\ srv' = [srv EXCEPT ![i].running_ = FALSE]
              /\ pth' = PGoto(t, "ws_close")
         ELSE /\ pth' = AfterStop(t)
              /\ UNCHANGED srv
    /\ UNCHANGED <<servers_, mutex_, ninst, held, pcalls, cleared, pfatal>>
    /\ UNCHANGED <<lastCall, bvars>>
    /\ UNCHANGED uvars

\* "if (app_ && listen_socket_) { if (loop && serverThread_.joinable() && not
\* the loop thread) loop->defer(close) else close directly } else warn";
\* app_ is the unique_ptr set in the constructor
WsClose(t) ==
    /\ ~pfatal /\ pth[t].pc = "ws_close"
    /\ LET i == pth[t].cur IN
         srv' = IF srv[i].listen_socket_ = NULL THEN srv
                ELSE IF srv[i].joinable
                THEN [srv EXCEPT ![i].pending = @ + 1]
                ELSE [srv EXCEPT ![i].listen_socket_ = NULL, ![i].open = FALSE,
                                 ![i].closed = TRUE, ![i].conn = {},
                                 ![i].gone = @ \cup srv[i].conn]
    /\ pth' = PGoto(t, "ws_join")
    /\ UNCHANGED <<servers_, mutex_, ninst, held, pcalls, cleared, pfatal>>
    /\ UNCHANGED <<lastCall, bvars>>
    /\ UNCHANGED uvars

\* "if (serverThread_.joinable()) serverThread_.join();"
WsJoin(t) ==
    /\ ~pfatal /\ pth[t].pc = "ws_join"
    /\ LET i == pth[t].cur IN
         /\ srv[i].joinable => srv[i].tpc = "done"
         /\ srv' = [srv EXCEPT ![i].joinable = FALSE]
    /\ pth' = PGoto(t, "ws_fin")
    /\ UNCHANGED <<servers_, mutex_, ninst, held, pcalls, cleared, pfatal>>
    /\ UNCHANGED <<lastCall, bvars>>
    /\ UNCHANGED uvars

\* "listening_ = false; listen_attempted_ = false;" and return
WsFin(t) ==
    /\ ~pfatal /\ pth[t].pc = "ws_fin"
    /\ srv' = [srv EXCEPT ![pth[t].cur].listening_ = FALSE,
                          ![pth[t].cur].listen_attempted_ = FALSE]
    /\ pth' = AfterStop(t)
    /\ UNCHANGED <<servers_, mutex_, ninst, held, pcalls, cleared, pfatal>>
    /\ UNCHANGED <<lastCall, bvars>>
    /\ UNCHANGED uvars

\* the end of ~WebSocketServer(): the members are destroyed; destroying a
\* joinable std::thread calls std::terminate; destroying app_ closes its
\* sockets
DtorFree(t) ==
    /\ ~pfatal /\ pth[t].pc = "dtor_free"
    /\ LET i == pth[t].cur IN
         /\ pfatal' = srv[i].joinable
         /\ srv' = [srv EXCEPT ![i].life = "dead", ![i].open = FALSE]
    /\ pth' = IF pth[t].ctx = "dtor"
              THEN [pth EXCEPT ![t] = IdleThread]
              ELSE [pth EXCEPT ![t].pc = "sa_release", ![t].cur = NULL]
    /\ UNCHANGED <<servers_, mutex_, ninst, held, pcalls, cleared>>
    /\ UNCHANGED <<lastCall, bvars>>
    /\ UNCHANGED uvars

\* ------------------------------------------------------------------------
\* WebSocketServerPool::stopAll()
\* ------------------------------------------------------------------------
\* faulty variant of StopAllSnapshot: the expired entries are erased but
\* the map is not cleared
StopAllSnapshotKeep(t) ==
    /\ ~pfatal /\ pth[t].pc = "idle"
    /\ pcalls < MaxPoolCalls
    /\ mutex_ = "free"
    /\ pcalls' = pcalls + 1
    /\ LET entries == {p \in Ports : servers_[p] # NULL}
           live == {servers_[p] : p \in {q \in entries : ~Expired(servers_[q])}}
       IN IF entries = {}
          THEN UNCHANGED <<servers_, pth, cleared>>
          ELSE /\ servers_' = [p \in Ports |->
                                  IF servers_[p] \in live THEN servers_[p] ELSE NULL]
               /\ pth' = [pth EXCEPT ![t].pc = "sa_next", ![t].ctx = "sa",
                                     ![t].snap = live, ![t].all = live]
               /\ cleared' = TRUE
    /\ UNCHANGED <<mutex_, srv, ninst, held, pfatal>>
    /\ lastCall' = IF lastCall \in {"stopAll", "stopAll2"} THEN "stopAll2" ELSE "stopAll"
    /\ UNCHANGED bvars
    /\ UNCHANGED uvars

\* faulty variant of StopAllSnapshot: the lock is still held when the
\* servers are stopped
StopAllSnapshotLocked(t) ==
    /\ ~pfatal /\ pth[t].pc = "idle"
    /\ pcalls < MaxPoolCalls
    /\ mutex_ = "free"
    /\ pcalls' = pcalls + 1
    /\ LET entries == {p \in Ports : servers_[p] # NULL}
           live == {servers_[p] : p \in {q \in entries : ~Expired(servers_[q])}}
       IN IF entries = {}
          THEN UNCHANGED <<servers_, pth, cleared, mutex_>>
          ELSE /\ servers_' = [p \in Ports |-> NULL]
               /\ pth' = [pth EXCEPT ![t].pc = "sa_next", ![t].ctx = "sa",
                                     ![t].snap = live, ![t].all = live]
               /\ cleared' = TRUE
               /\ mutex_' = t
    /\ UNCHANGED <<srv, ninst, held, pfatal>>
    /\ lastCall' = IF lastCall \in {"stopAll", "stopAll2"} THEN "stopAll2" ELSE "stopAll"
    /\ UNCHANGED bvars
    /\ UNCHANGED uvars

\* under the lock: return when the map is empty; else lock() every entry
\* into servers_to_stop, erase the expired ones, clear the map
StopAllSnapshot(t) ==
    /\ ~pfatal /\ pth[t].pc = "idle"
    /\ pcalls < MaxPoolCalls
    /\ mutex_ = "free"
    /\ pcalls' = pcalls + 1
    /\ LET entries == {p \in Ports : servers_[p] # NULL}
           live == {servers_[p] : p \in {q \in entries : ~Expired(servers_[q])}}
       IN IF entries = {}
          THEN UNCHANGED <<servers_, pth, cleared>>
          ELSE /\ servers_' = [p \in Ports |-> NULL]
               /\ pth' = [pth EXCEPT ![t].pc = "sa_next", ![t].ctx = "sa",
                                     ![t].snap = live, ![t].all = live]
               /\ cleared' = TRUE
    /\ UNCHANGED <<mutex_, srv, ninst, held, pfatal>>
    /\ lastCall' = IF lastCall \in {"stopAll", "stopAll2"} THEN "stopAll2" ELSE "stopAll"
    /\ UNCHANGED bvars
    /\ UNCHANGED uvars

\* outside the lock: "for (auto& server : servers_to_stop) server->stop();"
StopAllNext(t) ==
    /\ ~pfatal /\ pth[t].pc = "sa_next"
    /\ IF pth[t].snap = {}
       THEN pth' = PGoto(t, "sa_release")
       ELSE \E i \in pth[t].snap :
               pth' = [pth EXCEPT ![t].pc = "ws_xchg", ![t].cur = i,
                                  ![t].snap = @ \ {i}, ![t].rel = @ \cup {i}]
    /\ UNCHANGED <<servers_, mutex_, srv, ninst, held, pcalls, cleared, pfatal>>
    /\ UNCHANGED <<lastCall, bvars>>
    /\ UNCHANGED uvars

\* servers_to_stop goes out of scope: its references are released, and a
\* server whose last reference it was is destroyed
StopAllRelease(t) ==
    /\ ~pfatal /\ pth[t].pc = "sa_release"
    /\ IF pth[t].rel = {}
       THEN /\ pth' = [pth EXCEPT ![t] = IdleThread]
            /\ UNCHANGED srv
       ELSE \E i \in pth[t].rel :
               IF Strong(i) = 1
               THEN /\ srv' = [srv EXCEPT ![i].life = "dying"]
                    /\ pth' = [pth EXCEPT ![t].pc = "ws_xchg", ![t].cur = i,
                                          ![t].ctx = "sadtor", ![t].rel = @ \ {i}]
               ELSE /\ pth' = [pth EXCEPT ![t].rel = @ \ {i}]
                    /\ UNCHANGED srv
    /\ UNCHANGED <<servers_, mutex_, ninst, held, pcalls, cleared, pfatal>>
    /\ UNCHANGED <<lastCall, bvars>>
    /\ UNCHANGED uvars

\* ------------------------------------------------------------------------
\* The server thread of a WebSocketServer (the lambda run() hands to
\* std::thread)
\* ------------------------------------------------------------------------
\* app_->listen(port_, callback): the callback stores the token and sets
\* listening_; on failure it resets running_ and listen_attempted_; then
\* "if (listening_) app_->run() else exit"
PoolListen(i) ==
    /\ ~pfatal /\ srv[i].tpc = "listen"
    /\ \E ok \in BOOLEAN :
          srv' = [srv EXCEPT ![i] =
                     IF ok
                     THEN [@ EXCEPT !.listen_socket_ = i, !.listening_ = TRUE,
                                    !.open = TRUE, !.bind = "ok", !.tpc = "run"]
                     ELSE [@ EXCEPT !.listen_socket_ = NULL, !.listening_ = FALSE,
                                    !.running_ = FALSE, !.listen_attempted_ = FALSE,
                                    !.bind = "failed", !.tpc = "exit"]]
    /\ UNCHANGED <<servers_, mutex_, ninst, pth, held, pcalls, cleared, pfatal>>
    /\ UNCHANGED <<lastCall, bvars>>
    /\ UNCHANGED uvars

\* app_->run() executes the closure stop() deferred: "if (listen_socket_)
\* { us_listen_socket_close; listen_socket_ = nullptr; } app_->close();"
PoolLoopRun(i) ==
    /\ ~pfatal /\ srv[i].tpc = "run" /\ srv[i].pending > 0
    /\ srv' = [srv EXCEPT ![i].pending = @ - 1, ![i].listen_socket_ = NULL,
                          ![i].open = FALSE, ![i].closed = TRUE,
                          ![i].conn = {}, ![i].gone = @ \cup srv[i].conn]
    /\ UNCHANGED <<servers_, mutex_, ninst, pth, held, pcalls, cleared, pfatal>>
    /\ UNCHANGED <<lastCall, bvars>>
    /\ UNCHANGED uvars

\* app_->run() returns once the app has been closed
PoolLoopExit(i) ==
    /\ ~pfatal /\ srv[i].tpc = "run" /\ srv[i].closed
    /\ srv' = [srv EXCEPT ![i].tpc = "exit"]
    /\ UNCHANGED <<servers_, mutex_, ninst, pth, held, pcalls, cleared, pfatal>>
    /\ UNCHANGED <<lastCall, bvars>>
    /\ UNCHANGED uvars

\* "listening_ = false; running_ = false; listen_attempted_ = false;" and
\* the lambda returns: the thread has exited
PoolEpilogue(i) ==
    /\ ~pfatal /\ srv[i].tpc = "exit"
    /\ srv' = [srv EXCEPT ![i].listening_ = FALSE, ![i].running_ = FALSE,
                          ![i].listen_attempted_ = FALSE, ![i].tpc = "done"]
    /\ UNCHANGED <<servers_, mutex_, ninst, pth, held, pcalls, cleared, pfatal>>
    /\ UNCHANGED <<lastCall, bvars>>
    /\ UNCHANGED uvars

\* app_->run() accepts a connection on the listening socket: client k is
\* now connected to instance i
PoolClientOpen(i, k) ==
    /\ ~pfatal /\ srv[i].tpc = "run" /\ srv[i].open
    /\ \A j \in Insts : k \notin srv[j].conn \cup srv[j].gone
    /\ srv' = [srv EXCEPT ![i].conn = @ \cup {k}]
    /\ UNCHANGED <<servers_, mutex_, ninst, pth, held, pcalls, cleared, pfatal>>
    /\ UNCHANGED <<lastCall, bvars>>
    /\ UNCHANGED uvars

NextPool ==
    \/ \E i \in Insts : \E k \in PoolClients : PoolClientOpen(i, k)
    \/ \E t \in PoolThreads :
          \/ \E p \in Ports : EnsureFind(t, p)
          \/ EnsureCreate(t) \/ EnsureLock(t)
          \/ Drop(t) \/ StopHandle(t)
          \/ WsExchange(t) \/ WsClose(t) \/ WsJoin(t) \/ WsFin(t) \/ DtorFree(t)
          \/ StopAllSnapshot(t) \/ StopAllNext(t) \/ StopAllRelease(t)
    \/ \E i \in Insts :
          \/ PoolListen(i) \/ PoolLoopRun(i) \/ PoolLoopExit(i) \/ PoolEpilogue(i)

SpecPool == Init /\ [][NextPool]_vars

\* the pool with threads that keep running: a thread that can take its next
\* step inside ensureGetServer takes it
SpecPoolFair ==
    /\ SpecPool
    /\ \A t \in PoolThreads : WF_vars(EnsureCreate(t)) /\ WF_vars(EnsureLock(t))

\* ------------------------------------------------------------------------
\* Properties of the pool
\* ------------------------------------------------------------------------
\* ensureGetServer returns to thread t in this step
EnsureReturns(t) == held[t] = NULL /\ held'[t] # NULL

\* C1: however ensureGetServer(p) calls interleave, the references handed
\* out for p that are still held name one instance, and p never has two
\* servers that both still have an owner (as long as stopAll() has not
\* cleared the map).
OneLiveServerPerPort ==
    ~cleared =>
       /\ \A t, u \in PoolThreads :
             (held[t] # NULL /\ held[u] # NULL
                /\ srv[held[t]].port = srv[held[u]].port) => held[t] = held[u]
       /\ \A i, j \in Insts :
             (srv[i].life = "alive" /\ srv[j].life = "alive"
                /\ srv[i].port = srv[j].port) => i = j

\* C1 witness: two threads hold the same instance, the second one the pool
\* made for the port
OneLiveServerPerPortWitness ==
    /\ ~cleared
    /\ \A t \in PoolThreads : held[t] = 2

\* C4: when the bind of p fails, ensureGetServer(p) has waited for the
\* attempt and reports the failure: no caller is left holding a reference
\* to the server whose bind failed.
EnsureReportsBindFailure ==
    \A t \in PoolThreads : held[t] # NULL => srv[held[t]].bind # "failed"

\* C6: the pool's entries keep no server alive (a live server has an
\* owner), and when the last reference goes the destructor's stop() has
\* closed the listening socket and joined the loop thread before the
\* object is freed.
DroppedServerIsStopped ==
    /\ \A i \in Insts : srv[i].life = "alive" => Strong(i) > 0
    /\ \A t \in PoolThreads :
          pth[t].pc = "dtor_free" =>
             /\ ~srv[pth[t].cur].open
             /\ ~srv[pth[t].cur].joinable
             /\ srv[pth[t].cur].tpc \in {"none", "done"}

\* C7: ensureGetServer(p) never returns an instance whose owning
\* references were all dropped; when p has no live entry it constructs a
\* new instance, starts it (its thread is about to make its own bind
\* attempt), registers it under p and returns it.
LazyRecreation ==
    [][\A t \in PoolThreads :
          EnsureReturns(t) =>
             LET j == held'[t]
                 p == pth[t].port
                 e == servers_[p]
             IN /\ srv[j].life \in {"none", "alive"}
                /\ (e = NULL \/ Expired(e)) =>
                      /\ srv[j].life = "none" /\ j # e
                      /\ srv'[j].life = "alive" /\ srv'[j].port = p
                      /\ srv'[j].tpc = "listen" /\ srv'[j].running_
                      /\ servers_'[p] = j]_vars

\* C7 witness: the first server of the port was dropped and destroyed,
\* and a caller now holds the second one, registered under the port
LazyRecreationWitness ==
    /\ ~cleared /\ srv[1].life = "dead"
    /\ \E t \in PoolThreads : held[t] = 2 /\ servers_[srv[2].port] = 2

\* the instance's bind failed / the instance has been stopped or its loop
\* thread has left the run phase
Failed(i) == srv[i].bind = "failed"
Stopped(i) == srv[i].life # "none" /\ (~srv[i].running_ \/ srv[i].tpc \in {"exit", "done"})

\* C8: ensureGetServer(p) never returns an instance that is Stopped or
\* Failed.
NeverReturnsDeadServer ==
    [][\A t \in PoolThreads :
          EnsureReturns(t) => ~Failed(held'[t]) /\ ~Stopped(held'[t])]_vars

\* C3 (WebSocketServer): no stop() is left waiting in join() for a loop
\* thread that sits in app_->run() and was never told to close.
PoolStopStuck(t) ==
    /\ pth[t].pc = "ws_join"
    /\ srv[pth[t].cur].joinable
    /\ srv[pth[t].cur].tpc = "run"
    /\ srv[pth[t].cur].pending = 0 /\ ~srv[pth[t].cur].closed

PoolStopReturns == \A t \in PoolThreads : ~PoolStopStuck(t)

\* the pool's map has no entry
MapEmpty == \A p \in Ports : servers_[p] = NULL

\* no call has begun on the pool or on a handle since the last stopAll()
AfterStopAll == lastCall \in {"stopAll", "stopAll2"}

\* stopAll() on thread t has called stop() on every server of its snapshot
\* and is about to return
StopAllDone(t) == pth[t].pc = "sa_release"

\* C13: when stopAll() returns, the map is empty (no ensureGetServer has
\* begun since) and every server of the snapshot is stopped: isListening()
\* is false and its loop thread has exited and is joined.
StopAllStopsEveryServer ==
    \A t \in PoolThreads :
       StopAllDone(t) =>
          /\ AfterStopAll => MapEmpty
          /\ \A i \in pth[t].all :
                /\ ~srv[i].listening_
                /\ ~srv[i].joinable
                /\ srv[i].tpc = "done"

\* C14: when stopAll() returns, no client is left connected to a server of
\* the snapshot (each has observed a close event); the next
\* ensureGetServer(p) returns an instance that did not exist before, and
\* that instance has bound p and is listening.
FreshListeningServerAfterStopAll ==
    /\ [](\A t \in PoolThreads :
            StopAllDone(t) => \A i \in pth[t].all : srv[i].conn = {})
    /\ [][\A t \in PoolThreads :
             (EnsureReturns(t) /\ cleared /\ servers_[pth[t].port] = NULL) =>
                /\ srv[held'[t]].life = "none"
                /\ srv'[held'[t]].bind = "ok"
                /\ srv'[held'[t]].listening_]_vars

\* this step begins a stopAll() call
StopAllBegins == pcalls' = pcalls + 1 /\ lastCall' \in {"stopAll", "stopAll2"}

\* C15: a stopAll() that finds the map empty changes nothing and stops no
\* server; after a stopAll() the map is empty, so a second stopAll() in
\* sequence finds it empty and leaves the pool and the servers as the
\* first left them.
StopAllIdempotent ==
    /\ [](AfterStopAll => MapEmpty)
    /\ [][(StopAllBegins /\ (MapEmpty \/ AfterStopAll)) =>
             UNCHANGED <<servers_, mutex_, srv, ninst, pth, held, cleared, pfatal>>]_vars

\* C15 witness: stopAll() was called twice in a row on a pool whose server
\* had been listening with a client connected; both calls have returned
StopAllIdempotentWitness ==
    /\ lastCall = "stopAll2" /\ cleared
    /\ \A t \in PoolThreads : pth[t].pc = "idle"
    /\ \E i \in Insts : srv[i].gone # {} /\ srv[i].tpc = "done"

\* this step acts on instance i: its thread, a stop() or its destructor
ActsOn(i) == srv[i].life # "none" /\ srv'[i] # srv[i]

\* C17: a step on the server of port p (its bind failing, its loop
\* stopping, a stop() or the destruction of it) leaves every server of
\* another port, the map entry of that port and the handles to it as they
\* are, and the process that hosts them running.
OtherPortsUntouched ==
    [][\A i, j \in Insts :
          (ActsOn(i) /\ srv[j].life = "alive" /\ srv[j].port # srv[i].port) =>
             /\ srv'[j] = srv[j]
             /\ servers_'[srv[j].port] = servers_[srv[j].port]
             /\ \A t \in PoolThreads : held[t] = j => held'[t] = j
             /\ pfatal' = pfatal]_vars

\* C18: the process is never terminated: no std::thread is destroyed or
\* overwritten while joinable, no loop is used after it was freed.
NoFatalState == ~pfatal /\ ~fatal

\* ------------------------------------------------------------------------
\* Concurrent stop() calls on the broadcast server
\* ------------------------------------------------------------------------
\* the stop() calls that won the exchange and carry out the teardown
TearingDown == {t \in Callers : caller[t].pc \in {"stop_copy", "stop_defer",
                                                  "stop_join", "stop_fin"}}

\* teardown closures handed to the loop of generation g: those waiting in
\* its queue and the one that has closed the socket and the app
Closes(g) ==
    Cardinality({i \in 1..Len(queue[g]) : queue[g][i].kind = "close"})
       + (IF thr[g].closed THEN 1 ELSE 0)

\* C21: among concurrent stop() calls on one running server (its first loop
\* thread, no start() in progress) at most one call carries out the
\* teardown; the teardown closure is deferred, and the listening socket
\* closed, at most once for every loop thread.
SingleTeardown ==
    /\ \A g \in Gens : Closes(g) <= 1
    /\ ((\A t \in Callers : ~InStart(t)) /\ nthreads <= 1)
          => Cardinality(TearingDown) <= 1

\* two stop() calls overlap on a listening server: one has deferred the
\* teardown closure and waits in join(), the other lost the exchange
SingleTeardownWitness ==
    /\ promise[1] = "true" /\ nthreads = 1
    /\ \E t, u \in Callers :
          /\ caller[t].pc = "stop_join" /\ caller[t].loop = 1
          /\ caller[u].pc = "stop_else"
    /\ Closes(1) = 1

\* ------------------------------------------------------------------------
\* The pool lock and the stop() calls of stopAll()
\* ------------------------------------------------------------------------
\* thread t is in the part of stopAll() that follows the snapshot: it stops
\* the servers of the snapshot, or releases (and destroys) them
StoppingAll(t) == pth[t].ctx \in {"sa", "sadtor"}

\* C22: stopAll() holds the pool lock only for the snapshot and the
\* clearing of the map: while it stops, joins or destroys a server it does
\* not hold the lock, so no ensureGetServer call waits for a join.
StopAllStopsOutsideLock ==
    \A t \in PoolThreads : StoppingAll(t) => mutex_ # t

\* stopAll() waits in join() for a loop thread that still runs, while the
\* other thread is inside ensureGetServer and holds the lock
StopAllStopsOutsideLockWitness ==
    \E t, u \in PoolThreads :
       /\ pth[t].ctx = "sa" /\ pth[t].pc = "ws_join"
       /\ srv[pth[t].cur].joinable /\ srv[pth[t].cur].tpc = "run"
       /\ pth[u].pc \in {"ens_create", "ens_lock"} /\ mutex_ = u

\* ------------------------------------------------------------------------
\* ensureGetServer on a port that has a live server
\* ------------------------------------------------------------------------
\* the instance the map holds for the port thread t asked for, when it is
\* live; else NULL
LiveEntry(t) ==
    IF pth[t].port \in Ports /\ servers_[pth[t].port] # NULL
          /\ ~Expired(servers_[pth[t].port])
    THEN servers_[pth[t].port] ELSE NULL

\* C26: when the entry of port p is live as ensureGetServer(p) returns, the
\* call returns that instance and changes nothing else: no instance is
\* constructed, no thread spawned, no bind attempted, and the map and every
\* server's state stay as they were.
EnsureReusesLiveServer ==
    [][\A t \in PoolThreads :
          (EnsureReturns(t) /\ LiveEntry(t) # NULL)
             => /\ held'[t] = LiveEntry(t)
                /\ UNCHANGED <<servers_, srv, ninst>>]_vars

\* both threads hold the one instance ever constructed: the second call
\* was served from the map
EnsureReusesLiveServerWitness ==
    /\ ninst = 1 /\ servers_[srv[1].port] = 1
    /\ \A t \in PoolThreads : held[t] = 1 /\ pth[t].pc = "idle"

\* ------------------------------------------------------------------------
\* Expired entries of the map
\* ------------------------------------------------------------------------
\* no thread is inside a call on the pool, on a handle or in a destructor
PoolAtRest == \A t \in PoolThreads : pth[t].pc = "idle"

\* C27: the pool removes the entry of a port whose server lost its last
\* reference: once the calls in progress have finished, the map holds no
\* expired entry (in a process that was not terminated).
NoExpiredEntryAtRest ==
    (PoolAtRest /\ ~pfatal) => \A p \in Ports : servers_[p] = NULL \/ ~Expired(servers_[p])

\* ------------------------------------------------------------------------
\* stop() that finds no event loop to defer onto
\* ------------------------------------------------------------------------
\* thread t runs the teardown of stop() and copied a null loop handle
FoundNoLoop(t) == caller[t].pc \in {"stop_join", "stop_fin"} /\ caller[t].loop = NULL

\* the teardown is complete: all handles null, the loop thread exited and
\* joined, isListening() false
TornDown ==
    /\ listen_socket_ = NULL /\ app_ = NULL /\ eventLoop_ = NULL
    /\ ~serverThread_.joinable
    /\ \A g \in Gens : thr[g].pc \in {"none", "done"}
    /\ ~isListening

Handles == <<listen_socket_, app_, eventLoop_>>

\* a step of a loop thread / of a foreign thread
LoopThreadStep == thr' # thr
ForeignStep == caller' # caller

\* the critical section of stop(), under appMutex_, that copies the
\* handles and nulls them
StopCriticalSection ==
    \E t \in Callers : caller[t].pc = "stop_copy" /\ caller'[t].pc = "stop_defer"

\* C25: a foreign thread writes the listening-socket, app and loop handles
\* only in the critical section of stop(), which holds the server's mutex,
\* and writes null to all three; every step that leaves a handle with a new
\* non-null value is a step of the loop thread.
ForeignWritesNull ==
    [][/\ (ForeignStep /\ Handles' # Handles)
             => (StopCriticalSection /\ Handles' = <<NULL, NULL, NULL>>)
       /\ (\/ (listen_socket_' # listen_socket_ /\ listen_socket_' # NULL)
           \/ (app_' # app_ /\ app_' # NULL)
           \/ (eventLoop_' # eventLoop_ /\ eventLoop_' # NULL))
             => (LoopThreadStep /\ ~ForeignStep)]_vars

\* stop() has nulled the handles of a listening server whose loop thread
\* still runs, and is about to defer the teardown
ForeignWritesNullWitness ==
    \E t \in Callers :
       /\ caller[t].pc = "stop_defer" /\ caller[t].loop # NULL
       /\ caller[t].token # NULL
       /\ thr[caller[t].loop].pc = "run"
       /\ Handles = <<NULL, NULL, NULL>>

Publishes(m) ==
    \E g \in Gens :
       /\ thr[g].pc = "run" /\ queue[g] # <<>> /\ queue'[g] = Tail(queue[g])
       /\ Head(queue[g]).kind = "pub" /\ Head(queue[g]).arg = m
       /\ Head(queue[g]).app # NULL /\ running_

\* the loop thread runs the teardown closure of stop() in this step
ClosesApp ==
    \E g \in Gens :
       /\ thr[g].pc = "run" /\ queue[g] # <<>> /\ queue'[g] = Tail(queue[g])
       /\ Head(queue[g]).kind = "close"

\* C28: when a published message would take a connection over its
\* backpressure ceiling, the message is dropped for that connection only:
\* the connection stays open and subscribed, the other subscribers receive
\* the frame; a connection is closed by the teardown of stop() only, never
\* for backpressure or for being idle.
BackpressureDropsOnly ==
    [][/\ \A m \in Msgs : Publishes(m) =>
             \A k \in subscribed :
                /\ k \in subscribed' /\ closeEvents' = closeEvents
                /\ received'[k] = IF k \in slow THEN received[k]
                                  ELSE Append(received[k], m)
       /\ (~(subscribed \subseteq subscribed') \/ closeEvents' # closeEvents)
             => ClosesApp]_vars

\* a message was published while one client was at its ceiling: that client
\* is still subscribed, was never closed and missed the frame, the other
\* client received it
BackpressureDropsOnlyWitness ==
    /\ ran = {1} /\ closeEvents = {}
    /\ subscribed = Clients
    /\ \E k \in Clients :
          /\ k \in slow /\ received[k] = <<>>
          /\ \A j \in Clients \ {k} : j \notin slow /\ received[j] = <<1>>

\* C29: a message sent by a connected client changes nothing on the
\* server: no client receives a frame because of it, and the lifecycle, the
\* subscriptions, the handles and the queues of deferred closures stay as
\* they were.
ClientMessageIgnored ==
    [][inbound' # inbound
          => UNCHANGED <<running_, listen_success_, listen_socket_, app_,
                         eventLoop_, serverThread_, thr, promise, queue,
                         subscribed, received, closeEvents, slow, fatal>>]_vars

\* both clients are connected, messages have come in from them and a
\* broadcast has been delivered since
ClientMessageIgnoredWitness ==
    /\ inbound = MaxInbound /\ subscribed = Clients
    /\ \A k \in Clients : received[k] = <<1>>

\* ========================================================================
\* AsyncTextureReader (src/src/BridgeUtils/AsyncTextureReader.hpp): a render
\* thread that calls stage() and a CPU thread that calls sync().
\* Specification: SpecReader.
\* ========================================================================
\* stage(): "std::lock_guard<std::mutex> lock(gpuMutex);"
StageLock ==
    /\ render.pc = "idle" /\ nstage < MaxStage
    /\ gpuMutex = "free"
    /\ gpuMutex' = "render"
    /\ nstage' = nstage + 1
    /\ render' = [pc |-> "stage_texture", surf |-> gpuWriteIndex]
    /\ UNCHANGED <<gpuWriteIndex, activeCpuBufferIndex, stagesurfs, cpuBuffers,
                   cpu, nsync>>
    /\ UNCHANGED <<reader, bvars, pvars, gvars>>

\* "gs_stage_texture(stagesurfs[gpuWriteIndex].get(), sourceTexture.get());"
StageTexture ==
    /\ render.pc = "stage_texture"
    /\ stagesurfs' = [stagesurfs EXCEPT ![gpuWriteIndex] = nstage]
    /\ render' = [render EXCEPT !.pc = "stage_flip"]
    /\ UNCHANGED <<gpuWriteIndex, gpuMutex, activeCpuBufferIndex, cpuBuffers,
                   cpu, nstage, nsync>>
    /\ UNCHANGED <<reader, bvars, pvars, gvars>>

\* "gpuWriteIndex = 1 - gpuWriteIndex;" and the lock is released
StageFlip ==
    /\ render.pc = "stage_flip"
    /\ gpuWriteIndex' = 1 - gpuWriteIndex
    /\ gpuMutex' = "free"
    /\ render' = [pc |-> "idle", surf |-> 0]
    /\ UNCHANGED <<activeCpuBufferIndex, stagesurfs, cpuBuffers, cpu, nstage, nsync>>
    /\ UNCHANGED <<reader, bvars, pvars, gvars>>

\* sync(): "{ lock_guard lock(gpuMutex); gpuReadIndex = 1 - gpuWriteIndex; }"
SyncReadIndex ==
    /\ cpu.pc = "idle" /\ nsync < MaxSync
    /\ gpuMutex = "free"
    /\ nsync' = nsync + 1
    /\ cpu' = [pc |-> "sync_map", gpuReadIndex |-> 1 - gpuWriteIndex,
               backBufferIndex |-> 0]
    /\ UNCHANGED <<gpuWriteIndex, gpuMutex, activeCpuBufferIndex, stagesurfs,
                   cpuBuffers, render, nstage>>
    /\ UNCHANGED <<reader, bvars, pvars, gvars>>

\* faulty variant of SyncMap: the back buffer is taken to be the active
\* one
SyncMapActive ==
    /\ cpu.pc = "sync_map"
    /\ \E ok \in BOOLEAN :
          cpu' = IF ok
                 THEN [cpu EXCEPT !.pc = "sync_copy",
                                  !.backBufferIndex = activeCpuBufferIndex]
                 ELSE [pc |-> "idle", gpuReadIndex |-> 0, backBufferIndex |-> 0]
    /\ UNCHANGED <<gpuWriteIndex, gpuMutex, activeCpuBufferIndex, stagesurfs,
                   cpuBuffers, render, nstage, nsync>>
    /\ UNCHANGED <<reader, bvars, pvars, gvars>>

\* "const ScopedStageSurfMap mappedSurf(stagesurf);": the surface is mapped,
\* or gs_stagesurface_map fails and sync() throws; then
\* "backBufferIndex = 1 - activeCpuBufferIndex.load(acquire);"
SyncMap ==
    /\ cpu.pc = "sync_map"
    /\ \E ok \in BOOLEAN :
          cpu' = IF ok
                 THEN [cpu EXCEPT !.pc = "sync_copy",
                                  !.backBufferIndex = 1 - activeCpuBufferIndex]
                 ELSE [pc |-> "idle", gpuReadIndex |-> 0, backBufferIndex |-> 0]
    /\ UNCHANGED <<gpuWriteIndex, gpuMutex, activeCpuBufferIndex, stagesurfs,
                   cpuBuffers, render, nstage, nsync>>
    /\ UNCHANGED <<reader, bvars, pvars, gvars>>

\* the memcpy from the mapped surface into the back buffer
SyncCopy ==
    /\ cpu.pc = "sync_copy"
    /\ cpuBuffers' = [cpuBuffers EXCEPT ![cpu.backBufferIndex] =
                         stagesurfs[cpu.gpuReadIndex]]
    /\ cpu' = [cpu EXCEPT !.pc = "sync_store"]
    /\ UNCHANGED <<gpuWriteIndex, gpuMutex, activeCpuBufferIndex, stagesurfs,
                   render, nstage, nsync>>
    /\ UNCHANGED <<reader, bvars, pvars, gvars>>

\* "activeCpuBufferIndex.store(backBufferIndex, release);" and mappedSurf
\* goes out of scope: the surface is unmapped
SyncStore ==
    /\ cpu.pc = "sync_store"
    /\ activeCpuBufferIndex' = cpu.backBufferIndex
    /\ cpu' = [pc |-> "idle", gpuReadIndex |-> 0, backBufferIndex |-> 0]
    /\ UNCHANGED <<gpuWriteIndex, gpuMutex, stagesurfs, cpuBuffers, render,
                   nstage, nsync>>
    /\ UNCHANGED <<reader, bvars, pvars, gvars>>

\* getBuffer(): "return cpuBuffers[activeCpuBufferIndex.load(acquire)];"
GetBuffer ==
    /\ reader.n < MaxGet
    /\ reader' = [buf |-> activeCpuBufferIndex, n |-> reader.n + 1]
    /\ UNCHANGED <<gpuWriteIndex, gpuMutex, activeCpuBufferIndex, stagesurfs,
                   cpuBuffers, render, cpu, nstage, nsync>>
    /\ UNCHANGED <<bvars, pvars, gvars>>

NextReader ==
    \/ StageLock \/ StageTexture \/ StageFlip
    \/ SyncReadIndex \/ SyncMap \/ SyncCopy \/ SyncStore
    \/ GetBuffer

SpecReader == Init /\ [][NextReader]_vars

\* ------------------------------------------------------------------------
\* Properties of the texture reader
\* ------------------------------------------------------------------------
\* sync() has the staging surface gpuReadIndex mapped
Mapped == cpu.pc \in {"sync_copy", "sync_store"}

\* stage() is copying the texture into the staging surface render.surf
Staging == render.pc = "stage_texture"

\* C30: with stage() on a render thread and sync() on a CPU thread, the
\* staging surface that sync() has mapped is never the one a stage() call
\* is copying into at the same time.
StageSyncDisjoint ==
    ~(Mapped /\ Staging /\ render.surf = cpu.gpuReadIndex)

\* ========================================================================
\* Further properties of the pool and of the servers
\* ========================================================================
\* the instances of port p whose loop thread is about to bind, or has
\* bound and runs the loop (Starting or Listening)
Active(p) == {i \in Insts : srv[i].port = p /\ srv[i].tpc \in {"listen", "run"}}

\* C31: at any time at most one instance the pool created for port p is
\* Starting or Listening: no instance is started for p while an earlier
\* one is still being stopped by stopAll() or by its destructor.
OneActiveServerPerPort ==
    \A p \in Ports : Cardinality(Active(p)) <= 1

\* the loop threads of the broadcast server that have been spawned and
\* have not exited
LiveThreads == {g \in Gens : thr[g].pc \notin {"none", "done"}}

\* C32: a server object never has more than one loop thread: a start()
\* reaches the spawn only when no earlier thread of the object is running
\* or unjoined, under every interleaving of start() and stop() calls.
OneLoopThread ==
    /\ Cardinality(LiveThreads) <= 1
    /\ \A t \in Callers : caller[t].pc = "start_spawn" => ~serverThread_.joinable

\* C33: whenever ~WebSocketServer() finishes, the object's loop thread has
\* been joined, whatever state the object is destroyed in (never run,
\* listening, listen failed, already stopped): the std::thread member is
\* not joinable when the members are destroyed.
DestructorJoins ==
    \A t \in PoolThreads :
       pth[t].pc = "dtor_free" => ~srv[pth[t].cur].joinable

\* thread t leaves ensureGetServer in this step
EnsureEnds(t) == pth[t].pc \in {"ens_create", "ens_lock"} /\ pth'[t].pc = "idle"

InEnsure(t) == pth[t].pc \in {"ens_create", "ens_lock"}

\* C35: every ensureGetServer call eventually returns and releases the
\* pool lock, however it interleaves with other ensureGetServer calls,
\* stopAll(), stop() and handle drops.
EnsureTerminates ==
    \A t \in PoolThreads :
       InEnsure(t) ~> (pth[t].pc = "idle" /\ mutex_ # t)

\* ------------------------------------------------------------------------
\* The CPU buffers of the texture reader
\* ------------------------------------------------------------------------
\* sync() is in its memcpy into cpuBuffers[backBufferIndex]
Copying == cpu.pc = "sync_copy"

\* C36: with one thread calling sync(), sync() writes only into the CPU
\* buffer that is not the active one and makes it active only when the
\* copy is complete; a getBuffer() call returns a buffer that sync() is not
\* writing at that moment; activeCpuBufferIndex and gpuWriteIndex are
\* always 0 or 1.
BackBufferOnly ==
    /\ [](activeCpuBufferIndex \in {0, 1} /\ gpuWriteIndex \in {0, 1})
    /\ [](Copying => cpu.backBufferIndex # activeCpuBufferIndex)
    /\ [][/\ activeCpuBufferIndex' # activeCpuBufferIndex
             => (cpu.pc = "sync_store"
                   /\ activeCpuBufferIndex' = cpu.backBufferIndex)
          /\ reader'.n # reader.n
             => ~(Copying /\ cpu.backBufferIndex = reader'.buf)]_vars

\* getBuffer() was called during the memcpy of the second sync() and
\* returned the buffer the first sync() had made active
BackBufferOnlyWitness ==
    /\ Copying /\ nsync = 2 /\ activeCpuBufferIndex = 1
    /\ reader.n >= 1 /\ reader.buf = 1 /\ cpu.backBufferIndex = 0

\* ------------------------------------------------------------------------
\* GsUnique: the queue of graphics resources to delete
\* ------------------------------------------------------------------------
\* scheduleResourceToDelete(resource, deleter) is called: `if (resource)`.
\* A null resource makes the call return at once; another one goes on to
\* take the mutex.  Each non-null resource is a new one (the deleter of a
\* unique_ptr hands over the pointer it owned).
ScheduleResourceToDelete(t, x) ==
    /\ gth[t].pc = "idle"
    /\ IF x = NULL
       THEN /\ nnull < MaxNull
            /\ nnull' = nnull + 1
            /\ UNCHANGED <<gth, nres>>
       ELSE /\ nres < MaxRes
            /\ x = nres + 1
            /\ nres' = x
            /\ gth' = [gth EXCEPT ![t].pc = "sched_lock", ![t].resource = x]
            /\ UNCHANGED nnull
    /\ UNCHANGED <<resourcesToDelete, mtx, deleted, scheduled, ndrain>>
    /\ UNCHANGED <<bvars, pvars, rvars>>

\* std::lock_guard lock(getMutex()) of scheduleResourceToDelete
ScheduleLock(t) ==
    /\ gth[t].pc = "sched_lock"
    /\ mtx = "free"
    /\ mtx' = t
    /\ gth' = [gth EXCEPT ![t].pc = "sched_emplace"]
    /\ UNCHANGED <<resourcesToDelete, deleted, scheduled, nres, nnull, ndrain>>
    /\ UNCHANGED <<bvars, pvars, rvars>>

\* getResourceDeque().emplace_back(deleter, resource); the guard goes out
\* of scope and the call returns
ScheduleEmplace(t) ==
    /\ gth[t].pc = "sched_emplace"
    /\ resourcesToDelete' = Append(resourcesToDelete, gth[t].resource)
    /\ scheduled' = scheduled \cup {gth[t].resource}
    /\ mtx' = "free"
    /\ gth' = [gth EXCEPT ![t] = IdleGs]
    /\ UNCHANGED <<deleted, nres, nnull, ndrain>>
    /\ UNCHANGED <<bvars, pvars, rvars>>

\* drain() is called: the local deque `resources` is empty.  `before`
\* remembers which scheduleResourceToDelete calls had returned by then.
Drain(t) ==
    /\ gth[t].pc = "idle"
    /\ ndrain < MaxDrain
    /\ ndrain' = ndrain + 1
    /\ gth' = [gth EXCEPT ![t].pc = "drain_lock", ![t].resources = <<>>,
                          ![t].before = scheduled]
    /\ UNCHANGED <<resourcesToDelete, mtx, deleted, scheduled, nres, nnull>>
    /\ UNCHANGED <<bvars, pvars, rvars>>

\* std::lock_guard lock(getMutex()) of drain
DrainLock(t) ==
    /\ gth[t].pc = "drain_lock"
    /\ mtx = "free"
    /\ mtx' = t
    /\ gth' = [gth EXCEPT ![t].pc = "drain_move"]
    /\ UNCHANGED <<resourcesToDelete, deleted, scheduled, nres, nnull, ndrain>>
    /\ UNCHANGED <<bvars, pvars, rvars>>

\* a drain that copies the deque and leaves the resources in it
DrainCopy(t) ==
    /\ gth[t].pc = "drain_move"
    /\ gth' = [gth EXCEPT ![t].pc = "drain_loop",
                          ![t].resources = resourcesToDelete]
    /\ mtx' = "free"
    /\ UNCHANGED <<resourcesToDelete, deleted, scheduled, nres, nnull, ndrain>>
    /\ UNCHANGED <<bvars, pvars, rvars>>

\* resources = std::move(getResourceDeque()): the local deque takes the
\* elements, the shared one is left empty (what the move assignment of
\* std::deque does in the standard libraries); the guard goes out of scope
DrainMove(t) ==
    /\ gth[t].pc = "drain_move"
    /\ gth' = [gth EXCEPT ![t].pc = "drain_loop",
                          ![t].resources = resourcesToDelete]
    /\ resourcesToDelete' = <<>>
    /\ mtx' = "free"
    /\ UNCHANGED <<deleted, scheduled, nres, nnull, ndrain>>
    /\ UNCHANGED <<bvars, pvars, rvars>>

\* one round of `for (const auto &pair : resources)`:
\* pair.first(pair.second)
DrainDeleter(t) ==
    /\ gth[t].pc = "drain_loop"
    /\ gth[t].resources # <<>>
    /\ deleted' = [deleted EXCEPT ![Head(gth[t].resources)] = @ + 1]
    /\ gth' = [gth EXCEPT ![t].resources = Tail(@)]
    /\ UNCHANGED <<resourcesToDelete, mtx, scheduled, nres, nnull, ndrain>>
    /\ UNCHANGED <<bvars, pvars, rvars>>

\* the loop is over and drain() returns
DrainReturn(t) ==
    /\ gth[t].pc = "drain_loop"
    /\ gth[t].resources = <<>>
    /\ gth' = [gth EXCEPT ![t] = IdleGs]
    /\ UNCHANGED <<resourcesToDelete, mtx, deleted, scheduled, nres, nnull, ndrain>>
    /\ UNCHANGED <<bvars, pvars, rvars>>

NextGs ==
    \/ \E t \in GsThreads, x \in {NULL} \cup Resources :
          ScheduleResourceToDelete(t, x)
    \/ \E t \in GsThreads : ScheduleLock(t)
    \/ \E t \in GsThreads : ScheduleEmplace(t)
    \/ \E t \in GsThreads : Drain(t)
    \/ \E t \in GsThreads : DrainLock(t)
    \/ \E t \in GsThreads : DrainMove(t)
    \/ \E t \in GsThreads : DrainDeleter(t)
    \/ \E t \in GsThreads : DrainReturn(t)

SpecGs == Init /\ [][NextGs]_vars

\* the elements of a deque
Elems(q) == {q[i] : i \in 1..Len(q)}

\* how often x is in a deque
Times(q, x) == Cardinality({i \in 1..Len(q) : q[i] = x})

\* how often x is waiting: in the shared deque or in the local deque of a
\* drain() that is at work
RECURSIVE Waiting(_, _)
Waiting(T, x) ==
    IF T = {} THEN Times(resourcesToDelete, x)
    ELSE LET t == CHOOSE u \in T : TRUE
         IN  Times(gth[t].resources, x) + Waiting(T \ {t}, x)

\* thread t is in the loop of drain() that calls the deleters
Deleting(t) == gth[t].pc = "drain_loop"

\* C37: however scheduleResourceToDelete and drain calls interleave, a
\* resource is passed to its deleter at most once, a scheduled resource is
\* either waiting once or was deleted once, and when a drain() that began
\* after the scheduling returns, the resource was deleted or is the work
\* of another drain(); a null resource never enters the queue; the thread
\* that calls the deleters does not hold the queue mutex.
EachResourceDeletedOnce ==
    /\ [](\A x \in Resources :
             /\ deleted[x] <= 1
             /\ x \in scheduled => Waiting(GsThreads, x) + deleted[x] = 1)
    /\ [](/\ NULL \notin Elems(resourcesToDelete)
          /\ \A t \in GsThreads : NULL \notin Elems(gth[t].resources))
    /\ [](\A t \in GsThreads : Deleting(t) => mtx # t)
    /\ [][\A t \in GsThreads :
             (Deleting(t) /\ gth'[t].pc = "idle")
                => \A x \in gth[t].before :
                      \/ deleted'[x] = 1
                      \/ \E u \in GsThreads \ {t} :
                            Deleting(u) /\ x \in Elems(gth[u].resources)]_vars

\* a drain() has passed resource 1 to its deleter and is still in its
\* loop while the other thread holds the mutex to schedule resource 2,
\* after a call with a null resource
EachResourceDeletedOnceWitness ==
    /\ nnull >= 1 /\ deleted[1] = 1
    /\ \E t, u \in GsThreads :
          /\ Deleting(t) /\ 1 \in gth[t].before
          /\ gth[u].pc = "sched_emplace" /\ gth[u].resource = 2 /\ mtx = u

====
